---- MODULE Spec2Model ----
(***************************************************************************)
(* State-machine model of the io-event selector backends                   *)
(* (ext/io/event/selector/epoll.c and kqueue.c).                           *)
(*                                                                         *)
(* Bit masks (enum IO_Event, epoll flags) are modelled as the set of the   *)
(* numeric values of their set bits, so that "&" is \cap and "|" is \cup   *)
(* and a translation between two bit spaces acts on the numeric values.    *)
(* A waiter (struct ..._Waiting on a fiber's stack) is identified by the   *)
(* task that owns it; a suspended task owns at most one.                   *)
(***************************************************************************)
EXTENDS Integers, Sequences, FiniteSets, TLC

\* ------------------------------------------------------------------ bounds
\* Largest number of kernel events one kernel poll returns in the model
\* (the program's own limit is EPOLL_MAX_EVENTS / KQUEUE_MAX_EVENTS = 64).
MaxKernelEvents == 2
\* The number of wait-primitive calls (io_wait, process_wait) the tasks make
\* and the number of select calls the host loop makes in one behaviour.
MaxWaits == 2
MaxSelects == 2
\* The largest buffer a task hands to io_read / io_write, and the most bytes
\* one read or write syscall moves.
MaxSize == 2
MaxTransfer == 3
\* The number of values of the model's size_t (2^64 in the program): size_t
\* subtraction and addition wrap around at it.
SizeModulus == 8

\* ------------------------------------------------- program constants
\* enum IO_Event (selector.h)
IO_EVENT_READABLE == 1
IO_EVENT_PRIORITY == 2
IO_EVENT_WRITABLE == 4
IO_EVENT_EXIT == 32

\* <sys/epoll.h>
EPOLLIN == 1
EPOLLPRI == 2
EPOLLOUT == 4
EPOLLERR == 8
EPOLLHUP == 16
EPOLLRDHUP == 8192
EPOLLONESHOT == 1073741824

\* <errno.h>
EAGAIN == 11
ENOMEM == 12
EPERM == 1
ENOENT == 2
EINTR == 4
ESRCH == 3
EBADF == 9
EEXIST == 17
EMFILE == 24

\* <limits.h>: the largest int, and 2^32 as Int32WrapSeconds * 1000 +
\* Int32WrapMilliseconds.
INT_MAX == 2147483647
Int32WrapSeconds == 4294967
Int32WrapMilliseconds == 296

\* The tasks (fibers) of the model, the host loop fiber, the descriptor ids.
Tasks == {"A", "B"}
Loop == "loop"
Descriptors == {0, 1}
\* The interrupt channel's epoll user data (.data = {.fd = -1}).
InterruptFd == -1

\* The local "saved" list node of the dispatch routine, and the list head
\* as a cursor value.
Saved == "saved"
ListHead == "list"

\* The event masks a task may request from io_wait.
EventChoices ==
    { {IO_EVENT_READABLE}, {IO_EVENT_WRITABLE}, {IO_EVENT_PRIORITY},
      {IO_EVENT_READABLE, IO_EVENT_WRITABLE} }

\* The durations handed to select: nil, and the integers 0 and 1.
Durations ==
    { [nil |-> TRUE, n |-> 0], [nil |-> FALSE, n |-> 0], [nil |-> FALSE, n |-> 1] }

VARIABLES
    backend,      \* "epoll" | "kqueue": which selector was built
    current,      \* the running fiber: a task or Loop
    pc,           \* task -> "idle" | "running" | "io_wait" | "process_wait" | "yield"
    wevents,      \* task -> waiting.events of its waiter
    wfd,          \* task -> the descriptor (or pid) of its wait
    ret,          \* task -> what its last wait primitive returned
    list,         \* descriptor -> waiter list, head first, tail last
    arrivals,     \* history: descriptor -> its linked waiters in the order of their calls
    desc_events,  \* epoll descriptor record: events (armed mask)
    desc_ready,   \* kqueue descriptor record: ready (accumulator)
    fdkind,       \* kernel fd table: "closed" | "socket" | "file" | "pidfd"
    fdflags,      \* kernel fd table: the file status flags (F_GETFL / F_SETFL)
    epoll_set,    \* kernel epoll interest list: d -> [registered, events]
    kfilters,     \* kernel kqueue: armed one-shot filters [ident, filter]
    intr,         \* interrupt channel: [pending, armed]
    blocked,      \* selector->blocked
    queue,        \* selector->backend.ready (ready queue)
    sel_pc,       \* position of the loop inside select
    sel,          \* select's frame (struct select_arguments and locals)
    hnd,          \* the dispatch routine's frame (handle)
    obs,          \* observations of the last step (calls made, values returned)
    io,           \* the frame of the io_read / io_write call in progress
    nwaits,       \* wait-primitive calls made so far
    nselects      \* select calls made so far

vars == <<backend, current, pc, wevents, wfd, ret, list, arrivals, desc_events, desc_ready,
          fdkind, fdflags, epoll_set, kfilters, intr, blocked, queue, sel_pc, sel, hnd,
          obs, io, nwaits, nselects>>

\* ------------------------------------------------------------ list.h
\* A waiter list is the sequence of its nodes from the head to the tail.
Remove(s, x) == SelectSeq(s, LAMBDA e : e # x)

Index(s, x) == CHOOSE i \in 1..Len(s) : s[i] = x

Members(s) == {s[i] : i \in 1..Len(s)}

LinkedIn(lists, d, n) == n \in Members(lists[d])

Linked(lists, n) == \E d \in DOMAIN lists : LinkedIn(lists, d, n)

\* Insert node at the head of the list.
IO_Event_List_prepend(l, node) == <<node>> \o l

\* Insert new adjacent to node, on the side the dispatch walk moves to
\* (so that new's tail is the node the walk visits after node).
IO_Event_List_append(l, node, new) ==
    LET i == Index(l, node)
    IN  SubSeq(l, 1, i - 1) \o <<new>> \o SubSeq(l, i, Len(l))

\* Unlink node from whichever list holds it.
IO_Event_List_pop(lists, node) == [d \in DOMAIN lists |-> Remove(lists[d], node)]

\* node->tail: from the list head the tail element, from an element the next
\* one toward the head, and the list head after the head element.
ListTail(l, node) ==
    IF node = ListHead
    THEN IF l = <<>> THEN ListHead ELSE l[Len(l)]
    ELSE LET i == Index(l, node) IN IF i = 1 THEN ListHead ELSE l[i - 1]

\* -------------------------------------------------- event translation
epoll_flags_from_events(events) ==
    (IF IO_EVENT_READABLE \in events THEN {EPOLLIN} ELSE {})
    \cup (IF IO_EVENT_PRIORITY \in events THEN {EPOLLPRI} ELSE {})
    \cup (IF IO_EVENT_WRITABLE \in events THEN {EPOLLOUT} ELSE {})
    \cup {EPOLLHUP} \cup {EPOLLERR}

\* (mutation: only EPOLLIN is taken for READABLE)
events_from_epoll_flags_in_only(flags) ==
    (IF EPOLLIN \in flags THEN {IO_EVENT_READABLE} ELSE {})
    \cup (IF EPOLLPRI \in flags THEN {IO_EVENT_PRIORITY} ELSE {})
    \cup (IF EPOLLOUT \in flags THEN {IO_EVENT_WRITABLE} ELSE {})

events_from_epoll_flags(flags) ==
    (IF flags \cap {EPOLLIN, EPOLLHUP, EPOLLERR} # {} THEN {IO_EVENT_READABLE} ELSE {})
    \cup (IF EPOLLPRI \in flags THEN {IO_EVENT_PRIORITY} ELSE {})
    \cup (IF EPOLLOUT \in flags THEN {IO_EVENT_WRITABLE} ELSE {})

\* ------------------------------------------------- the kernel's epoll
\* Event bits epoll reports; the bits that survive a one-shot disarm.
EPollEventBits == {EPOLLIN, EPOLLPRI, EPOLLOUT, EPOLLERR, EPOLLHUP, EPOLLRDHUP}
EPollPrivateBits == {EPOLLONESHOT}

Unregistered == [registered |-> FALSE, events |-> {}]

\* errno of epoll_ctl(op, d) (0 on success).
epoll_ctl_errno(kinds, eset, op, d) ==
    IF kinds[d] = "closed" THEN EBADF
    ELSE IF kinds[d] = "file" THEN EPERM
    ELSE IF op = "ADD" /\ eset[d].registered THEN EEXIST
    ELSE IF op # "ADD" /\ ~eset[d].registered THEN ENOENT
    ELSE 0

\* The interest list after a successful epoll_ctl(op, d, flags).
epoll_ctl_apply(eset, op, d, flags) ==
    IF op = "DEL" THEN [eset EXCEPT ![d] = Unregistered]
    ELSE [eset EXCEPT ![d] = [registered |-> TRUE,
                              events |-> flags \cup {EPOLLERR, EPOLLHUP}]]

\* epoll_ctl as the code uses it when it ignores the result.
epoll_ctl(kinds, eset, op, d, flags) ==
    IF epoll_ctl_errno(kinds, eset, op, d) = 0
    THEN epoll_ctl_apply(eset, op, d, flags)
    ELSE eset

\* close(d) drops d from every kernel set.
close_epoll(eset, d) == [eset EXCEPT ![d] = Unregistered]

\* ------------------------------------------------ the kernel's kqueue
\* kevent() registering the changes: errno (0 on success).  A read or write
\* filter on a closed descriptor is refused, and so is a process filter on
\* a process that does not exist (alive = FALSE).
kevent_errno(kinds, changes, alive) ==
    IF \E c \in changes : c.filter # "EVFILT_PROC" /\ kinds[c.ident] = "closed"
    THEN EBADF
    ELSE IF \E c \in changes : c.filter = "EVFILT_PROC" /\ ~alive THEN ESRCH
    ELSE 0

\* ------------------------------------------------------------- values
RetNone == [kind |-> "none", events |-> {}]
RetEvents(e) == [kind |-> "events", events |-> e]
RetFalse == [kind |-> "false", events |-> {}]
RetRaised == [kind |-> "raised", events |-> {}]
RetFailed == [kind |-> "failed", events |-> {}]
RetStatus == [kind |-> "status", events |-> {}]

\* What a fiber is resumed with: an events bitmap, nil, or an exception.
WithNone == [kind |-> "none", events |-> {}]
WithEvents(e) == [kind |-> "events", events |-> e]
WithNil == [kind |-> "nil", events |-> {}]
WithRaise == [kind |-> "raise", events |-> {}]

\* What the last step did: the system calls it made, the errno of the
\* failed one, the event mask it passed to epoll_ctl and the timeout it
\* passed to the blocking kernel wait, what wakeup or select returned (with the history fields of that select's frame), whether
\* select raised, and the fiber it resumed (with the wait it was suspended in
\* and the value).
ObsNone == [calls |-> {}, errno |-> 0, flags |-> {}, wakeup |-> "none", select |-> -1,
            total |-> 0, forever |-> FALSE, raised |-> FALSE, fiber |-> "none", wait |-> "none",
            value |-> WithNone, timeout |-> [kind |-> "none", ms |-> 0, tv_sec |-> 0, tv_nsec |-> 0]]
ObsCalls(c, errno) == [ObsNone EXCEPT !.calls = c, !.errno = errno]
ObsCtl(c, errno, flags) == [ObsCalls(c, errno) EXCEPT !.flags = flags]

\* select's frame.  Three fields are history, not program state: forever
\* says that this call, made with duration nil, performed the blocking wait
\* while no waiter was linked and no descriptor or filter was registered with
\* the kernel, total is the number of events in the array the kernel filled
\* last, polled is that array as the kqueue select got it (events holds what
\* of it is not dispatched yet).
SelIdle == [duration |-> [nil |-> TRUE, n |-> 0], flush |-> 0, ready |-> 0,
            count |-> 0, events |-> <<>>, errno |-> 0, forever |-> FALSE, total |-> 0,
            polled |-> <<>>]

\* The dispatch routine's frame: flags is event->events of the epoll event
\* it was called with.
HndIdle == [d |-> 0, flags |-> {}, io_event |-> {}, matched |-> {}, node |-> ListHead,
            resumed |-> {}]

\* The frame of io_read / io_write (struct io_read_arguments and the locals
\* of the loop).  pc: "off" (no buffered call so far), "loop" (about to
\* issue the syscall), "wait" (about to call io_wait), "waiting" (inside
\* io_wait), "done" (returned or raised: result).  Two fields are history:
\* moved is the number of bytes the syscalls of this call transferred,
\* syscall is the last syscall issued (the buffer offset and the byte count
\* passed, and the length that remained to be transferred), prior is the
\* descriptor's status flags when the call was made, cancelled tells that a
\* nested io_wait of this call returned false (the task was resumed with nil).
IoNoResult == [kind |-> "none", count |-> 0, errno |-> 0]

IoNoSyscall == [name |-> "none", offset |-> 0, count |-> 0, length |-> 0]

IoOff == [pc |-> "off", task |-> "none", op |-> "none", descriptor |-> 0, size |-> 0,
          offset |-> 0, length |-> 0, total |-> 0, events |-> {}, flags |-> {},
          result |-> IoNoResult, start |-> 0, requested |-> 0, moved |-> 0,
          syscall |-> IoNoSyscall, prior |-> {}, cancelled |-> FALSE]

\* Task t is inside io_read / io_write.
InIo(t) == io.task = t /\ io.pc \in {"loop", "wait", "waiting"}

\* io_wait called by task t: by the read / write loop when t is inside one
\* (with the loop's descriptor and events), by the task's own code otherwise.
IoWaitCall(t, d, events) ==
    IF io.pc = "off" THEN UNCHANGED io
    ELSE /\ io.pc = "wait" /\ io.task = t
         /\ d = io.descriptor /\ events = io.events
         /\ io' = [io EXCEPT !.pc = "waiting"]

\* -------------------------------------------------------------- Init
\* IO_Event_Interrupt_add: the interrupt channel's registration.
IO_Event_Interrupt_add == {EPOLLIN, EPOLLRDHUP, EPOLLONESHOT}

Init ==
    /\ backend \in {"epoll", "kqueue"}
    /\ current = Loop
    /\ pc = [t \in Tasks |-> "idle"]
    /\ wevents = [t \in Tasks |-> {}]
    /\ wfd = [t \in Tasks |-> 0]
    /\ ret = [t \in Tasks |-> RetNone]
    /\ list = [d \in Descriptors |-> <<>>]
    /\ arrivals = [d \in Descriptors |-> <<>>]
    /\ desc_events = [d \in Descriptors |-> {}]
    /\ desc_ready = [d \in Descriptors |-> {}]
    /\ fdkind = [d \in Descriptors |-> IF d = 0 THEN "socket" ELSE "closed"]
    /\ fdflags = [d \in Descriptors |-> {}]
    /\ epoll_set = [d \in Descriptors |-> Unregistered]
    /\ kfilters = {}
    /\ intr = [pending |-> FALSE,
               events |-> IF backend = "epoll" THEN IO_Event_Interrupt_add ELSE {}]
    /\ blocked = 0
    /\ queue = <<>>
    /\ sel_pc = "idle"
    /\ sel = SelIdle
    /\ hnd = HndIdle
    /\ obs = IF backend = "epoll"
             THEN ObsCtl({"IO_Event_Interrupt_add", "epoll_ctl"}, 0, IO_Event_Interrupt_add)
             ELSE ObsNone
    /\ io = IoOff
    /\ nwaits = 0
    /\ nselects = 0

\* ------------------------------------------------ resuming a fiber
\* io_wait_ensure / process_wait_ensure: the waiter lists after the ensure
\* block of the wait primitive ran.
\* (mutation: the ensure block leaves the waiter linked)
EPoll_io_wait_ensure_linked(lists, t) == lists

EPoll_io_wait_ensure(lists, t) == IO_Event_List_pop(lists, t)

\* (mutation: the kqueue ensure block leaves the waiter linked)
KQueue_io_wait_ensure_linked(lists, t) == lists

KQueue_io_wait_ensure(lists, t) == IO_Event_List_pop(lists, t)

\* (mutation: the ensure block of process_wait leaves the waiter linked)
EPoll_process_wait_ensure_linked(lists, t) == lists

EPoll_process_wait_ensure(lists, t) == IO_Event_List_pop(lists, t)

KQueue_process_wait_ensure(lists, t) == IO_Event_List_pop(lists, t)

\* io_wait_transfer: what io_wait returns for the value the fiber was resumed with.
\* (mutation: the resume value is translated without the nil test)
EPoll_io_wait_transfer_untested(value) ==
    RetEvents(events_from_epoll_flags(value.events))

EPoll_io_wait_transfer(value) ==
    IF value.kind = "nil" THEN RetFalse
    ELSE RetEvents(events_from_epoll_flags(value.events))

KQueue_io_wait_transfer(value) ==
    IF value.kind = "nil" THEN RetFalse ELSE RetEvents(value.events)

\* process_wait_transfer: the resume value is dropped, the status is queried.
process_wait_transfer(value) == RetStatus

\* The value the wait primitive the task is suspended in returns.
WaitReturn(u, value) ==
    IF value.kind = "raise" THEN RetRaised
    ELSE CASE pc[u] = "io_wait" ->
                 IF backend = "epoll" THEN EPoll_io_wait_transfer(value)
                 ELSE KQueue_io_wait_transfer(value)
           [] pc[u] = "process_wait" -> process_wait_transfer(value)
           [] pc[u] = "yield" -> RetEvents(wevents[u])
           [] OTHER -> ret[u]

WaitEnsure(lists, u) ==
    CASE pc[u] = "io_wait" ->
             IF backend = "epoll" THEN EPoll_io_wait_ensure(lists, u)
             ELSE KQueue_io_wait_ensure(lists, u)
      [] pc[u] = "process_wait" ->
             IF backend = "epoll" THEN EPoll_process_wait_ensure(lists, u)
             ELSE KQueue_process_wait_ensure(lists, u)
      [] OTHER -> lists

\* process_wait_ensure of the epoll backend closes the process handle.
ClosesHandle(u) == backend = "epoll" /\ pc[u] = "process_wait"

\* IO_Event_Selector_fiber_transfer(u, value) by fiber from: u runs until it
\* leaves the wait primitive it was suspended in (its ensure block included).
Transfer(from, u, value, lists) ==
    /\ current' = u
    /\ pc' = [t \in Tasks |-> IF t = u THEN "running"
                              ELSE IF t = from THEN "idle" ELSE pc[t]]
    /\ ret' = [t \in Tasks |-> IF t = u THEN WaitReturn(u, value)
                               ELSE IF t = from THEN RetNone ELSE ret[t]]
    /\ list' = WaitEnsure(lists, u)
    /\ arrivals' = [d \in Descriptors |-> Remove(arrivals[d], u)]
    /\ fdkind' = IF ClosesHandle(u) THEN [fdkind EXCEPT ![wfd[u]] = "closed"] ELSE fdkind
    /\ epoll_set' = IF ClosesHandle(u) THEN close_epoll(epoll_set, wfd[u]) ELSE epoll_set

\* The observation of a step that resumed fiber u with value.
ObsTransfer(u, value) ==
    [ObsNone EXCEPT !.calls = IF ClosesHandle(u) THEN {"close"} ELSE {},
                    !.fiber = u, !.wait = pc[u], !.value = value]

Running(t) == current = t /\ pc[t] = "running"

\* The host loop (outside select) resumes a task that is not in a wait.
Start(t) ==
    /\ current = Loop /\ sel_pc = "idle" /\ pc[t] = "idle"
    /\ current' = t
    /\ pc' = [pc EXCEPT ![t] = "running"]
    /\ obs' = ObsNone
    /\ UNCHANGED <<backend, fdflags, io, wevents, wfd, ret, list, arrivals, desc_events, desc_ready, fdkind,
                   epoll_set, kfilters, intr, blocked, queue, sel_pc, sel, hnd, nwaits, nselects>>

\* A running task transfers to the loop without entering a wait (or ends).
TaskReturn(t) ==
    /\ Running(t) /\ ~InIo(t)
    /\ current' = Loop
    /\ pc' = [pc EXCEPT ![t] = "idle"]
    /\ ret' = [ret EXCEPT ![t] = RetNone]
    /\ wevents' = [wevents EXCEPT ![t] = {}]
    /\ wfd' = [wfd EXCEPT ![t] = 0]
    /\ obs' = ObsNone
    /\ UNCHANGED <<backend, fdflags, io, list, arrivals, desc_events, desc_ready, fdkind, epoll_set, kfilters,
                   intr, blocked, queue, sel_pc, sel, hnd, nwaits, nselects>>

\* The host loop (outside select) or a running task resumes a task suspended
\* in io_wait or process_wait with the cancellation sentinel or an exception.
Cancel(from, u, value) ==
    /\ current = from
    /\ IF from = Loop THEN sel_pc = "idle" ELSE pc[from] = "running"
    /\ u # from
    /\ pc[u] \in {"io_wait", "process_wait"}
    /\ Transfer(from, u, value, list)
    /\ obs' = ObsTransfer(u, value)
    /\ UNCHANGED <<backend, fdflags, io, wevents, wfd, desc_events, desc_ready, kfilters, intr,
                   blocked, queue, sel_pc, sel, hnd, nwaits, nselects>>

\* ------------------------------------------------------ epoll: io_wait
\* IO_Event_Selector_EPoll_io_wait: does the armed mask lack a requested bit?
EPoll_io_wait_rearm(armed, events) == (armed \cap events) # events

EPoll_io_wait_operation(armed) == IF armed # {} THEN "MOD" ELSE "ADD"

\* The descriptor record's mask when io_wait is done with epoll_ctl (errno 0
\* also when the call was skipped): widened only after the call succeeded.
\* (mutation: the mask is widened before the result of epoll_ctl is tested)
EPoll_io_wait_events_early(armed, events, errno) == armed \cup events

EPoll_io_wait_events(armed, events, errno) ==
    IF errno = 0 THEN armed \cup events ELSE armed

EPoll_io_wait(t, d, events) ==
    LET armed == desc_events[d]
        rearm == EPoll_io_wait_rearm(armed, events)
        operation == EPoll_io_wait_operation(armed)
        flags == epoll_flags_from_events(armed \cup events)
        errno == IF rearm THEN epoll_ctl_errno(fdkind, epoll_set, operation, d) ELSE 0
        calls == IF rearm THEN {"epoll_ctl"} ELSE {}
    IN  /\ backend = "epoll" /\ Running(t) /\ nwaits < MaxWaits
        /\ fdkind[d] # "closed"    \* IO_Event_Selector_io_descriptor(io) of an open io
        /\ nwaits' = nwaits + 1
        /\ obs' = ObsCtl(calls, errno, IF rearm THEN flags ELSE {})
        /\ desc_events' = [desc_events EXCEPT ![d] = EPoll_io_wait_events(armed, events, errno)]
        /\ IF errno = 0
           THEN \* armed (or already armed): link the waiter and transfer to the loop
                /\ epoll_set' = IF rearm THEN epoll_ctl_apply(epoll_set, operation, d, flags)
                                 ELSE epoll_set
                /\ list' = [list EXCEPT ![d] = IO_Event_List_prepend(@, t)]
                /\ arrivals' = [arrivals EXCEPT ![d] = Append(@, t)]
                /\ pc' = [pc EXCEPT ![t] = "io_wait"]
                /\ wevents' = [wevents EXCEPT ![t] = events]
                /\ wfd' = [wfd EXCEPT ![t] = d]
                /\ ret' = [ret EXCEPT ![t] = RetNone]
                /\ current' = Loop
                /\ UNCHANGED queue
           ELSE IF errno = EPERM
           THEN \* push the fiber on the ready queue and yield
                /\ queue' = Append(queue, t)
                /\ pc' = [pc EXCEPT ![t] = "yield"]
                /\ wevents' = [wevents EXCEPT ![t] = events]
                /\ wfd' = [wfd EXCEPT ![t] = d]
                /\ ret' = [ret EXCEPT ![t] = RetNone]
                /\ current' = Loop
                /\ UNCHANGED <<epoll_set, list, arrivals>>
           ELSE \* rb_sys_fail
                /\ ret' = [ret EXCEPT ![t] = RetFailed]
                /\ wevents' = [wevents EXCEPT ![t] = events]
                /\ wfd' = [wfd EXCEPT ![t] = d]
                /\ UNCHANGED <<epoll_set, list, arrivals, pc, current, queue>>
        /\ IoWaitCall(t, d, events)
        /\ UNCHANGED <<backend, fdflags, desc_ready, fdkind, kfilters, intr, blocked, sel_pc,
                       sel, hnd, nselects>>

\* ------------------------------------------------ epoll: process_wait
\* pidfd_open returns the lowest descriptor number that is free.
FreeDescriptors == {d \in Descriptors : fdkind[d] = "closed"}

pidfd_open == CHOOSE d \in FreeDescriptors : \A e \in FreeDescriptors : d <= e

EPoll_process_wait_flags == {EPOLLIN, EPOLLERR, EPOLLHUP, EPOLLONESHOT}

\* IO_Event_Selector_EPoll_process_wait.  found: does the descriptor-record
\* lookup succeed (IO_Event_Array_lookup allocates); failure: the errno the
\* kernel refuses EPOLL_CTL_ADD with for lack of memory (0: it does not).
EPoll_process_wait(t, found, failure) ==
    /\ backend = "epoll" /\ Running(t) /\ nwaits < MaxWaits
    /\ nwaits' = nwaits + 1
    /\ IF FreeDescriptors = {}
       THEN \* pidfd_open failed: rb_sys_fail
            /\ ret' = [ret EXCEPT ![t] = RetFailed]
            /\ obs' = ObsCalls({"pidfd_open"}, EMFILE)
            /\ UNCHANGED <<fdkind, desc_events, epoll_set, list, arrivals, pc, wevents, wfd, current>>
       ELSE LET descriptor == pidfd_open
                opened == [fdkind EXCEPT ![descriptor] = "pidfd"]
                errno == IF failure # 0 THEN failure
                         ELSE epoll_ctl_errno(opened, epoll_set, "ADD", descriptor)
            IN  IF ~found
                THEN \* IO_Event_Selector_EPoll_Descriptor_lookup: rb_sys_fail
                     /\ fdkind' = opened
                     /\ ret' = [ret EXCEPT ![t] = RetFailed]
                     /\ obs' = ObsCalls({"pidfd_open"}, ENOMEM)
                     /\ UNCHANGED <<desc_events, epoll_set, list, arrivals, pc, wevents, wfd,
                                    current>>
                ELSE IF errno # 0
                THEN \* epoll_ctl failed: close(descriptor); rb_sys_fail
                     /\ desc_events' = [desc_events EXCEPT ![descriptor] = {IO_EVENT_READABLE}]
                     /\ ret' = [ret EXCEPT ![t] = RetFailed]
                     /\ obs' = ObsCtl({"pidfd_open", "epoll_ctl", "close"}, errno,
                                      EPoll_process_wait_flags)
                     /\ UNCHANGED <<fdkind, epoll_set, list, arrivals, pc, wevents, wfd, current>>
                ELSE /\ fdkind' = opened
                     /\ desc_events' = [desc_events EXCEPT ![descriptor] = {IO_EVENT_READABLE}]
                     /\ epoll_set' = epoll_ctl_apply(epoll_set, "ADD", descriptor,
                                                      EPoll_process_wait_flags)
                     /\ list' = [list EXCEPT ![descriptor] = IO_Event_List_prepend(@, t)]
                     /\ arrivals' = [arrivals EXCEPT ![descriptor] = Append(@, t)]
                     /\ pc' = [pc EXCEPT ![t] = "process_wait"]
                     /\ wevents' = [wevents EXCEPT ![t] = {IO_EVENT_READABLE}]
                     /\ wfd' = [wfd EXCEPT ![t] = descriptor]
                     /\ ret' = [ret EXCEPT ![t] = RetNone]
                     /\ current' = Loop
                     /\ obs' = ObsCtl({"pidfd_open", "epoll_ctl"}, 0, EPoll_process_wait_flags)
    /\ UNCHANGED <<backend, fdflags, io, desc_ready, kfilters, intr, blocked, queue, sel_pc, sel,
                   hnd, nselects>>

\* ----------------------------------------------------- kqueue: arming
\* IO_Event_Selector_KQueue_arm: the kevents built for the waiter's events.
IO_Event_Selector_KQueue_arm(ident, events) ==
    (IF IO_EVENT_READABLE \in events
        THEN {[ident |-> ident, filter |-> "EVFILT_READ"]} ELSE {})
    \cup (IF IO_EVENT_WRITABLE \in events
        THEN {[ident |-> ident, filter |-> "EVFILT_WRITE"]} ELSE {})
    \cup (IF IO_EVENT_EXIT \in events
        THEN {[ident |-> ident, filter |-> "EVFILT_PROC"]} ELSE {})

\* io_wait (wait = "io_wait") and process_wait (wait = "process_wait") of
\* the kqueue backend: arm, link the waiter, transfer to the loop.
KQueue_wait(t, ident, events, wait, alive) ==
    LET changes == IO_Event_Selector_KQueue_arm(ident, events)
        errno == kevent_errno(fdkind, changes, alive)
    IN  /\ backend = "kqueue" /\ Running(t) /\ nwaits < MaxWaits
        /\ nwaits' = nwaits + 1
        /\ obs' = ObsCalls({"kevent"}, errno)
        /\ wevents' = [wevents EXCEPT ![t] = events]
        /\ wfd' = [wfd EXCEPT ![t] = ident]
        /\ IF errno = 0
           THEN /\ kfilters' = kfilters \cup changes
                /\ list' = [list EXCEPT ![ident] = IO_Event_List_prepend(@, t)]
                /\ arrivals' = [arrivals EXCEPT ![ident] = Append(@, t)]
                /\ pc' = [pc EXCEPT ![t] = wait]
                /\ ret' = [ret EXCEPT ![t] = RetNone]
                /\ current' = Loop
           ELSE \* rb_sys_fail
                /\ ret' = [ret EXCEPT ![t] = RetFailed]
                /\ UNCHANGED <<kfilters, list, arrivals, pc, current>>
        /\ IoWaitCall(t, ident, events)
        /\ UNCHANGED <<backend, fdflags, desc_events, desc_ready, fdkind, epoll_set, intr,
                       blocked, queue, sel_pc, sel, hnd, nselects>>

\* IO_Event_Selector_io_descriptor(io) is the descriptor of an open io.
KQueue_io_wait(t, d, events) ==
    /\ fdkind[d] # "closed"
    /\ KQueue_wait(t, d, events, "io_wait", TRUE)

KQueue_process_wait(t, pid, alive) ==
    KQueue_wait(t, pid, {IO_EVENT_EXIT}, "process_wait", alive)

\* ------------------------------------------- io_read and io_write
\* size_t arithmetic (the model's word has SizeModulus values).
SizeSub(a, b) == (a - b + SizeModulus) % SizeModulus

SizeAdd(a, b) == (a + b) % SizeModulus

\* IO_Event_try_again(errno): EAGAIN / EWOULDBLOCK.
IO_Event_try_again(errno) == errno = EAGAIN

rb_fiber_scheduler_io_result(result, error) ==
    [kind |-> "result", count |-> result, errno |-> error]

\* rb_raise, or an exception that propagates out of the nested io_wait.
IoRaised == [kind |-> "raised", count |-> 0, errno |-> 0]

\* The loop condition: while (true) in epoll.c, while (maximum_size) in kqueue.c.
EPoll_io_loop_enters(maximum_size) == TRUE

KQueue_io_loop_enters(maximum_size) == maximum_size # 0

\* The count the loop returns on success: offset in epoll.c, total in kqueue.c.
EPoll_io_loop_count(offset, total) == offset

KQueue_io_loop_count(offset, total) == total

\* The events the loop hands to io_wait on a retry-class errno.
EPoll_io_read_loop_events == {IO_EVENT_READABLE}

EPoll_io_write_loop_events == {IO_EVENT_WRITABLE}

KQueue_io_read_loop_events == {IO_EVENT_READABLE}

KQueue_io_write_loop_events == {IO_EVENT_READABLE}

io_loop_enters(maximum_size) ==
    IF backend = "epoll" THEN EPoll_io_loop_enters(maximum_size)
    ELSE KQueue_io_loop_enters(maximum_size)

io_loop_count(offset, total) ==
    IF backend = "epoll" THEN EPoll_io_loop_count(offset, total)
    ELSE KQueue_io_loop_count(offset, total)

io_loop_events(op) ==
    IF backend = "epoll"
    THEN IF op = "read" THEN EPoll_io_read_loop_events ELSE EPoll_io_write_loop_events
    ELSE IF op = "read" THEN KQueue_io_read_loop_events ELSE KQueue_io_write_loop_events

\* IO_Event_Selector_nonblock_set: the descriptor is put into nonblocking
\* mode; the flags it had are returned.
IO_Event_Selector_nonblock_set(flags, d) ==
    [returned |-> flags[d], flags |-> [flags EXCEPT ![d] = @ \cup {"O_NONBLOCK"}]]

\* IO_Event_Selector_nonblock_restore: the remembered flags are set again.
IO_Event_Selector_nonblock_restore(flags, d, saved) == [flags EXCEPT ![d] = saved]

\* io_read_ensure / io_write_ensure: the ensure block of the buffered call.
\* (mutation: the ensure block restores nothing)
io_read_ensure_kept(flags, d, saved) == flags

io_read_ensure(flags, d, saved) == IO_Event_Selector_nonblock_restore(flags, d, saved)

io_write_ensure(flags, d, saved) == IO_Event_Selector_nonblock_restore(flags, d, saved)

io_ensure(op, flags, d, saved) ==
    IF op = "read" THEN io_read_ensure(flags, d, saved)
    ELSE io_write_ensure(flags, d, saved)

\* What read(fd, p, count) / write(fd, p, count) may return: up to count
\* bytes (the kernel moves at most MaxTransfer at once), 0, or -1 with errno.
SyscallResults(count) ==
    {[n |-> k, errno |-> 0] :
        k \in 0..(IF count < MaxTransfer THEN count ELSE MaxTransfer)}
    \cup {[n |-> -1, errno |-> e] : e \in {EAGAIN, EBADF}}

\* The arguments a task may pass: buffers of 0..MaxSize bytes, offsets and
\* lengths up to one more than that.
IoSizes == 0..MaxSize

IoOffsets == 0..(MaxSize + 1)

IoLengths == 0..(MaxSize + 1)

\* io_write_loop: the test that comes before the loop.
\* (mutation: the write loop accepts any length)
io_write_loop_rejects_never(length, size) == FALSE

io_write_loop_rejects(length, size) == length > size

\* IO_Event_Selector_{EPoll,KQueue}_io_read / io_write up to the first
\* iteration of the loop (the write loop rejects length > size).
IoCall(t, op, d, size, offset, length) ==
    /\ Running(t) /\ io.pc = "off"
    /\ fdkind[d] # "closed"
    /\ LET set == IO_Event_Selector_nonblock_set(fdflags, d)
           frame == [IoOff EXCEPT !.task = t, !.op = op, !.descriptor = d, !.size = size,
                                  !.flags = set.returned, !.prior = fdflags[d],
                                  !.start = offset, !.requested = length]
       IN  IF op = "write" /\ io_write_loop_rejects(length, size)
           THEN /\ io' = [frame EXCEPT !.pc = "done", !.result = IoRaised]
                /\ fdflags' = io_ensure(op, set.flags, d, set.returned)
           ELSE /\ io' = [frame EXCEPT !.pc = "loop", !.offset = offset, !.length = length]
                /\ fdflags' = set.flags
    /\ obs' = ObsNone
    /\ UNCHANGED <<backend, current, pc, wevents, wfd, ret, list, arrivals, desc_events,
                   desc_ready, fdkind, epoll_set, kfilters, intr, blocked, queue, sel_pc,
                   sel, hnd, nwaits, nselects>>

\* One iteration of io_read_loop / io_write_loop (entered from the top or
\* after the nested io_wait returned): the syscall and what follows it.
IoLoop(t) ==
    /\ Running(t) /\ io.task = t /\ io.pc \in {"loop", "waiting"}
    /\ IF io.pc = "waiting" /\ ret[t].kind \in {"raised", "failed"}
       THEN /\ io' = [io EXCEPT !.pc = "done", !.result = IoRaised]
            /\ obs' = ObsNone
       ELSE LET maximum_size == SizeSub(io.size, io.offset)
                returned == [io EXCEPT !.cancelled =
                                          @ \/ (io.pc = "waiting" /\ ret[t] = RetFalse)]
            IN  IF ~io_loop_enters(maximum_size)
                THEN /\ io' = [returned EXCEPT !.pc = "done",
                                         !.result = rb_fiber_scheduler_io_result(
                                                        io_loop_count(io.offset, io.total), 0)]
                     /\ obs' = ObsNone
                ELSE \E r \in SyscallResults(maximum_size) :
                       LET issued == [returned EXCEPT !.syscall = [name |-> io.op,
                                                             offset |-> io.offset,
                                                             count |-> maximum_size,
                                                             length |-> io.length]]
                           offset == SizeAdd(io.offset, r.n)
                           total == IF backend = "kqueue" THEN io.total + r.n ELSE io.total
                           moved == [issued EXCEPT !.offset = offset, !.total = total,
                                                   !.moved = @ + r.n]
                       IN  /\ obs' = ObsCalls({io.op}, r.errno)
                           /\ io' =
                                IF r.n > 0
                                THEN IF r.n >= io.length
                                     THEN [moved EXCEPT
                                              !.pc = "done",
                                              !.result = rb_fiber_scheduler_io_result(
                                                             io_loop_count(offset, total), 0)]
                                     ELSE [moved EXCEPT !.pc = "loop", !.length = @ - r.n]
                                ELSE IF r.n = 0
                                THEN [issued EXCEPT
                                         !.pc = "done",
                                         !.result = rb_fiber_scheduler_io_result(
                                                        io_loop_count(io.offset, io.total), 0)]
                                ELSE IF io.length > 0 /\ IO_Event_try_again(r.errno)
                                THEN [issued EXCEPT !.pc = "wait",
                                                    !.events = io_loop_events(io.op)]
                                ELSE [issued EXCEPT
                                         !.pc = "done",
                                         !.result = rb_fiber_scheduler_io_result(-1, r.errno)]
    /\ fdflags' = IF io'.pc = "done"
                  THEN io_ensure(io.op, fdflags, io.descriptor, io.flags)
                  ELSE fdflags
    /\ UNCHANGED <<backend, current, pc, wevents, wfd, ret, list, arrivals, desc_events,
                   desc_ready, fdkind, epoll_set, kfilters, intr, blocked, queue, sel_pc,
                   sel, hnd, nwaits, nselects>>

\* ---------------------------------------------- the application's fds
\* User code (a running task, or the host outside select) opens a socket or a
\* regular file on a free descriptor number.
UserCode == current # Loop \/ sel_pc = "idle"

Open(d, kind) ==
    /\ UserCode /\ fdkind[d] = "closed"
    /\ fdkind' = [fdkind EXCEPT ![d] = kind]
    /\ obs' = ObsNone
    /\ UNCHANGED <<backend, fdflags, io, current, pc, wevents, wfd, ret, list, arrivals, desc_events, desc_ready,
                   epoll_set, kfilters, intr, blocked, queue, sel_pc, sel, hnd, nwaits, nselects>>

\* User code sets the status flags of an open descriptor (fcntl F_SETFL)
\* before the task makes its buffered call.
Fcntl(d, flags) ==
    /\ current = Loop /\ sel_pc = "idle" /\ io.pc = "off" /\ nselects = 0 /\ nwaits = 0
    /\ fdkind[d] # "closed"
    /\ fdflags[d] # flags
    /\ fdflags' = [fdflags EXCEPT ![d] = flags]
    /\ obs' = ObsNone
    /\ UNCHANGED <<backend, io, current, pc, wevents, wfd, ret, list, arrivals, desc_events,
                   desc_ready, fdkind, epoll_set, kfilters, intr, blocked, queue, sel_pc,
                   sel, hnd, nwaits, nselects>>

\* -------------------------------------------------- kernel polls
\* The flag sets one epoll event may carry in the model.
FiredChoices ==
    { {EPOLLIN}, {EPOLLPRI}, {EPOLLOUT}, {EPOLLHUP}, {EPOLLERR}, {EPOLLIN, EPOLLOUT} }

InterruptEvent == [fd |-> InterruptFd, events |-> {EPOLLIN}]

UserEvent == [ident |-> 0, filter |-> "EVFILT_USER", udata |-> FALSE]

\* The interrupt channel is readable and its registration reports it.
InterruptReady ==
    IF backend = "epoll"
    THEN intr.pending /\ (intr.events \cap EPollEventBits) # {}
    ELSE intr.pending

\* The events the kernel may report now: readiness of a registered
\* descriptor is the environment's choice, the interrupt's is determined.
KernelEvents ==
    IF backend = "epoll"
    THEN UNION { { [fd |-> d, events |-> F] :
                     F \in {G \in FiredChoices : G \subseteq epoll_set[d].events} } :
                 d \in {x \in Descriptors : epoll_set[x].registered} }
         \cup (IF InterruptReady THEN {InterruptEvent} ELSE {})
    ELSE { [ident |-> f.ident, filter |-> f.filter, udata |-> TRUE] : f \in kfilters }
         \cup (IF InterruptReady THEN {UserEvent} ELSE {})

\* Two events of one poll come from different registrations.
SameSource(a, b) ==
    IF backend = "epoll" THEN a.fd = b.fd
    ELSE a.ident = b.ident /\ a.filter = b.filter /\ a.udata = b.udata

RECURSIVE EventSeqs(_, _)
EventSeqs(E, n) ==
    IF n = 0 THEN {<<>>}
    ELSE LET shorter == EventSeqs(E, n - 1)
         IN  shorter \cup
             UNION { { Append(s, e) :
                         e \in {x \in E : \A i \in 1..Len(s) : ~SameSource(s[i], x)} } :
                     s \in {x \in shorter : Len(x) = n - 1} }

Reported(evs) == {evs[i] : i \in 1..Len(evs)}

\* The event arrays one kernel wait may return.
KernelWaitEvents ==
    { evs \in EventSeqs(KernelEvents, MaxKernelEvents) :
        InterruptReady =>
            (IF backend = "epoll" THEN InterruptEvent ELSE UserEvent) \in Reported(evs) }

\* The results of one kernel wait: [count, events, errno].
WaitOk(evs) == [count |-> Len(evs), events |-> evs, errno |-> 0]
WaitFailed(errno) == [count |-> -1, events |-> <<>>, errno |-> errno]

NonblockingResults ==
    {WaitOk(evs) : evs \in KernelWaitEvents} \cup {WaitFailed(EINTR), WaitFailed(EBADF)}

\* The kernel's state after it reported evs: one-shot registrations are
\* disarmed (epoll) or deleted (kqueue), the user event is cleared (EV_CLEAR).
EPollAfter(eset, evs) ==
    [d \in Descriptors |->
        IF (\E e \in Reported(evs) : e.fd = d) /\ EPOLLONESHOT \in eset[d].events
        THEN [eset[d] EXCEPT !.events = @ \cap EPollPrivateBits]
        ELSE eset[d]]

KQueueAfter(filters, evs) ==
    {f \in filters :
        ~\E e \in Reported(evs) : e.udata /\ e.ident = f.ident /\ e.filter = f.filter}

InterruptAfter(ir, evs) ==
    IF backend = "epoll"
    THEN IF InterruptEvent \in Reported(evs) /\ EPOLLONESHOT \in ir.events
         THEN [ir EXCEPT !.events = @ \cap EPollPrivateBits] ELSE ir
    ELSE IF UserEvent \in Reported(evs) THEN [ir EXCEPT !.pending = FALSE] ELSE ir

KernelAfter(evs) ==
    /\ epoll_set' = IF backend = "epoll" THEN EPollAfter(epoll_set, evs) ELSE epoll_set
    /\ kfilters' = IF backend = "kqueue" THEN KQueueAfter(kfilters, evs) ELSE kfilters
    /\ intr' = InterruptAfter(intr, evs)

\* ------------------------------------------------------- timeouts
NullTimeout == [null |-> TRUE, tv_sec |-> 0, tv_nsec |-> 0]

\* (mutation: nil is taken for a duration of one second)
make_timeout_finite(duration) ==
    [null |-> FALSE, tv_sec |-> IF duration.nil THEN 1 ELSE duration.n, tv_nsec |-> 0]

make_timeout(duration) ==
    IF duration.nil THEN NullTimeout
    ELSE [null |-> FALSE, tv_sec |-> duration.n, tv_nsec |-> 0]

timeout_nonblocking(timespec) ==
    ~timespec.null /\ timespec.tv_sec = 0 /\ timespec.tv_nsec = 0

\* (int)(tv_sec * 1000 + milliseconds): the sum is a 64-bit time_t, the
\* function returns int, so the value wraps around at 2^32.  Computed
\* piecewise, for 0 <= tv_sec < 3 * 2^31 / 1000, without leaving 32 bits.
int_from_milliseconds(tv_sec, milliseconds) ==
    IF tv_sec <= (INT_MAX - milliseconds) \div 1000
    THEN tv_sec * 1000 + milliseconds
    ELSE (tv_sec - Int32WrapSeconds) * 1000 + (milliseconds - Int32WrapMilliseconds)

make_timeout_ms(timeout) ==
    IF timeout.null THEN -1
    ELSE IF timeout_nonblocking(timeout) THEN 0
    ELSE int_from_milliseconds(timeout.tv_sec, timeout.tv_nsec \div 1000000)

\* select_internal: the timeout argument of the kernel wait.  epoll_pwait2
\* and kevent take the timespec (NULL: no limit); when epoll_pwait2 is not
\* built in or fails with ENOSYS (fallback), epoll_wait takes milliseconds.
select_internal_timeout(timeout, fallback) ==
    IF fallback
    THEN [kind |-> "milliseconds", ms |-> make_timeout_ms(timeout), tv_sec |-> 0, tv_nsec |-> 0]
    ELSE IF timeout.null
    THEN [kind |-> "null", ms |-> 0, tv_sec |-> 0, tv_nsec |-> 0]
    ELSE [kind |-> "timespec", ms |-> 0, tv_sec |-> timeout.tv_sec,
          tv_nsec |-> timeout.tv_nsec]

\* Is epoll_pwait2 unavailable?  The build and the kernel decide.
Fallbacks == IF backend = "epoll" THEN BOOLEAN ELSE {FALSE}

\* The kernel waits without a time limit: a NULL timespec, and for
\* epoll_wait a negative number of milliseconds.
kernel_wait_unbounded(timeout) ==
    IF timeout.kind = "milliseconds" THEN timeout.ms < 0 ELSE timeout.kind = "null"

\* A blocking wait returns events, or times out when it has a timeout, or fails.
BlockingResults(timeout) ==
    {WaitOk(evs) : evs \in KernelWaitEvents \ {<<>>}}
    \cup (IF kernel_wait_unbounded(timeout) THEN {} ELSE {WaitOk(<<>>)})
    \cup {WaitFailed(EINTR), WaitFailed(EBADF)}

\* ----------------------------------------------------------- select
\* (mutation: the exit of a process is taken for readability)
events_from_kevent_filter_readable(filter) ==
    CASE filter = "EVFILT_READ" -> {IO_EVENT_READABLE}
      [] filter = "EVFILT_WRITE" -> {IO_EVENT_WRITABLE}
      [] filter = "EVFILT_PROC" -> {IO_EVENT_READABLE}
      [] OTHER -> {}

events_from_kevent_filter(filter) ==
    CASE filter = "EVFILT_READ" -> {IO_EVENT_READABLE}
      [] filter = "EVFILT_WRITE" -> {IO_EVENT_WRITABLE}
      [] filter = "EVFILT_PROC" -> {IO_EVENT_EXIT}
      [] OTHER -> {}

\* The first loop of IO_Event_Selector_KQueue_select over the returned events.
\* (mutation: only the first returned event is accumulated)
KQueue_select_accumulate_first(acc, evs) ==
    [d \in Descriptors |->
        IF evs # <<>> /\ Head(evs).udata /\ Head(evs).ident = d
        THEN acc[d] \cup events_from_kevent_filter(Head(evs).filter)
        ELSE acc[d]]

KQueue_select_accumulate(acc, evs) ==
    [d \in Descriptors |->
        acc[d] \cup UNION { events_from_kevent_filter(e.filter) :
                              e \in {x \in Reported(evs) : x.udata /\ x.ident = d} }]

\* The condition under which select performs the blocking kernel wait.
\* (mutation: the count of the nonblocking poll is not tested)
EPoll_select_blocks_uncounted(ready, count, q, duration) ==
    /\ ready = 0 /\ q = <<>>
    /\ ~timeout_nonblocking(make_timeout(duration))

EPoll_select_blocks(ready, count, q, duration) ==
    /\ ready = 0 /\ count = 0 /\ q = <<>>
    /\ ~timeout_nonblocking(make_timeout(duration))

KQueue_select_blocks(ready, count, q, duration) ==
    /\ ready = 0 /\ count = 0 /\ q = <<>>
    /\ ~timeout_nonblocking(make_timeout(duration))

select_blocks(ready, count, q, duration) ==
    IF backend = "epoll" THEN EPoll_select_blocks(ready, count, q, duration)
    ELSE KQueue_select_blocks(ready, count, q, duration)

\* select is entered by the host loop: IO_Event_Selector_queue_flush starts
\* on the tasks that are queued now.
Select(duration) ==
    /\ current = Loop /\ sel_pc = "idle" /\ nselects < MaxSelects
    /\ nselects' = nselects + 1
    /\ sel' = [SelIdle EXCEPT !.duration = duration, !.flush = Len(queue)]
    /\ sel_pc' = "flush"
    /\ obs' = ObsNone
    /\ UNCHANGED <<backend, fdflags, io, current, pc, wevents, wfd, ret, list, arrivals, desc_events, desc_ready,
                   fdkind, epoll_set, kfilters, intr, blocked, queue, hnd, nwaits>>

\* IO_Event_Selector_queue_flush resumes the next queued task.
Flush ==
    /\ current = Loop /\ sel_pc = "flush" /\ sel.flush > 0
    /\ queue' = Tail(queue)
    /\ sel' = [sel EXCEPT !.flush = @ - 1, !.ready = @ + 1]
    /\ Transfer(Loop, Head(queue), WithNil, list)
    /\ obs' = ObsTransfer(Head(queue), WithNil)
    /\ UNCHANGED <<backend, fdflags, io, wevents, wfd, desc_events, desc_ready, kfilters, intr, blocked,
                   sel_pc, hnd, nwaits, nselects>>

\* The observation of a step in which a kernel wait of select returned:
\* the function that made it and the errno (0 when the wait succeeded).
ObsWait(function, r) == ObsCalls({function}, IF r.count = -1 THEN r.errno ELSE 0)

\* select raises (rb_sys_fail): its frame is gone.
SelectRaise(seen) ==
    /\ sel_pc' = "idle"
    /\ sel' = SelIdle
    /\ obs' = [seen EXCEPT !.raised = TRUE, !.forever = sel.forever]

\* select goes on to dispatch the count events it got.
SelectDispatch(count, evs, seen) ==
    /\ sel_pc' = "dispatch"
    /\ sel' = [sel EXCEPT !.count = count, !.events = evs, !.errno = 0,
                          !.total = Len(evs), !.duration = SelIdle.duration,
                          !.polled = IF backend = "kqueue" THEN evs ELSE <<>>]
    /\ desc_ready' = IF backend = "kqueue" THEN KQueue_select_accumulate(desc_ready, evs)
                      ELSE desc_ready
    /\ obs' = seen

\* select_internal_with_gvl after select_internal: does it raise, and the
\* count it leaves in the arguments.
\* (mutation: every failure of the kernel wait raises, EINTR included)
select_internal_with_gvl_strict(count, errno) ==
    [raises |-> count = -1, count |-> IF count = -1 THEN 0 ELSE count]

select_internal_with_gvl(count, errno) ==
    [raises |-> count = -1 /\ errno # EINTR, count |-> IF count = -1 THEN 0 ELSE count]

\* select_internal_with_gvl (the nonblocking poll) and the decision to block.
SelectPoll ==
    /\ current = Loop /\ sel_pc = "flush" /\ sel.flush = 0
    /\ \E r \in NonblockingResults :
         IF select_internal_with_gvl(r.count, r.errno).raises
         THEN /\ SelectRaise(ObsWait("select_internal_with_gvl", r))
              /\ UNCHANGED <<epoll_set, kfilters, intr, blocked, desc_ready>>
         ELSE LET count == select_internal_with_gvl(r.count, r.errno).count
              IN  /\ KernelAfter(r.events)
                  /\ IF select_blocks(sel.ready, count, queue, sel.duration)
                     THEN /\ blocked' = 1
                          /\ sel_pc' = "blocking"
                          /\ sel' = [sel EXCEPT !.count = count, !.events = r.events,
                                                !.total = Len(r.events),
                                                !.forever =
                                                    /\ sel.duration.nil
                                                    /\ \A d \in Descriptors :
                                                          /\ list[d] = <<>>
                                                          /\ ~epoll_set[d].registered
                                                    /\ kfilters = {}]
                          /\ obs' = ObsWait("select_internal_with_gvl", r)
                          /\ UNCHANGED desc_ready
                     ELSE /\ SelectDispatch(count, r.events,
                                             ObsWait("select_internal_with_gvl", r))
                          /\ UNCHANGED blocked
    /\ UNCHANGED <<backend, fdflags, io, current, pc, wevents, wfd, ret, list, arrivals, desc_events, fdkind,
                   queue, hnd, nwaits, nselects>>

\* The kernel ends the blocking wait (the thread still has to take the lock).
KernelReturn ==
    /\ sel_pc = "blocking"
    /\ \E fallback \in Fallbacks :
         LET timeout == select_internal_timeout(make_timeout(sel.duration), fallback)
         IN  /\ \E r \in BlockingResults(timeout) :
                   /\ sel' = [sel EXCEPT !.count = r.count, !.events = r.events,
                                         !.errno = r.errno, !.total = Len(r.events)]
                   /\ KernelAfter(r.events)
             /\ obs' = [ObsNone EXCEPT !.timeout = timeout]
    /\ sel_pc' = "woken"
    /\ UNCHANGED <<backend, fdflags, io, current, pc, wevents, wfd, ret, list, arrivals, desc_events, desc_ready,
                   fdkind, blocked, queue, hnd, nwaits, nselects>>

\* select_internal_without_gvl: the blocked flag once the call is over; it is
\* cleared before the kernel's result is tested.
\* (mutation: the flag is cleared after the test, so rb_sys_fail skips it)
select_internal_without_gvl_late(count, errno) ==
    IF count = -1 /\ errno # EINTR THEN 1 ELSE 0

select_internal_without_gvl(count, errno) == 0

\* select_internal_without_gvl after rb_thread_call_without_gvl returned.
SelectWake ==
    /\ current = Loop /\ sel_pc = "woken"
    /\ blocked' = select_internal_without_gvl(sel.count, sel.errno)
    /\ IF sel.count = -1 /\ sel.errno # EINTR
       THEN SelectRaise(ObsWait("select_internal_without_gvl", sel)) /\ UNCHANGED desc_ready
       ELSE SelectDispatch(IF sel.count = -1 THEN 0 ELSE sel.count, sel.events,
                           ObsWait("select_internal_without_gvl", sel))
    /\ UNCHANGED <<backend, fdflags, io, current, pc, wevents, wfd, ret, list, arrivals, desc_events, fdkind,
                   epoll_set, kfilters, intr, queue, hnd, nwaits, nselects>>

\* The value select returns: INT2NUM(arguments.count).
\* (mutation: the tasks resumed by the flush are counted as well)
select_return_resumed(ready, count) == ready + count

select_return(ready, count) == count

\* IO_Event_Interrupt_clear
IO_Event_Interrupt_clear(ir) == [ir EXCEPT !.pending = FALSE]

\* What the event loop of the epoll select does with an event whose
\* descriptor is negative (the interrupt channel's).
\* (mutation: the event is skipped)
EPoll_select_interrupt_skipped(ir) == ir

EPoll_select_interrupt(ir) == IO_Event_Interrupt_clear(ir)

\* The frame of the dispatch routine when it starts on descriptor d.
\* (mutation: the walk starts at the node next to the head)
HandleFrame_head(d, io_event) ==
    [HndIdle EXCEPT !.d = d, !.io_event = io_event,
                    !.node = IF list[d] = <<>> THEN ListHead ELSE Head(list[d])]

HandleFrame(d, io_event) ==
    [HndIdle EXCEPT !.d = d, !.io_event = io_event,
                    !.node = ListTail(list[d], ListHead)]

\* The for loop of select over the returned events, one event per step
\* (sel.events holds the events not yet dispatched); the loop ends by
\* returning the event count.
Dispatch ==
    /\ current = Loop /\ sel_pc = "dispatch"
    /\ IF sel.events = <<>>
       THEN /\ sel_pc' = "idle"
            /\ sel' = SelIdle
            /\ obs' = [ObsNone EXCEPT !.select = select_return(sel.ready, sel.count),
                                      !.total = sel.total, !.forever = sel.forever]
            /\ UNCHANGED <<hnd, intr, desc_ready>>
       ELSE LET event == Head(sel.events)
            IN  /\ obs' = IF backend = "epoll" /\ event.fd < 0
                          THEN ObsCalls({"IO_Event_Interrupt_clear"}, 0) ELSE ObsNone
                /\ sel' = [sel EXCEPT !.events = Tail(@)]
                /\ IF backend = "epoll"
                   THEN IF event.fd >= 0
                        THEN /\ hnd' = [HandleFrame(event.fd,
                                                     events_from_epoll_flags(event.events))
                                         EXCEPT !.flags = event.events]
                             /\ sel_pc' = "walk"
                             /\ UNCHANGED <<intr, desc_ready>>
                        ELSE /\ intr' = EPoll_select_interrupt(intr)
                             /\ UNCHANGED <<sel_pc, hnd, desc_ready>>
                   ELSE IF event.udata /\ desc_ready[event.ident] # {}
                        THEN /\ hnd' = HandleFrame(event.ident, desc_ready[event.ident])
                             /\ desc_ready' = [desc_ready EXCEPT ![event.ident] = {}]
                             /\ sel_pc' = "walk"
                             /\ UNCHANGED intr
                        ELSE UNCHANGED <<sel_pc, hnd, intr, desc_ready>>
    /\ UNCHANGED <<backend, fdflags, io, current, pc, wevents, wfd, ret, list, arrivals, desc_events, fdkind,
                   epoll_set, kfilters, blocked, queue, nwaits, nselects>>

\* IO_Event_Selector_EPoll_handle after its walk: re-register the descriptor
\* when events fired that no waiter took.
EPoll_handle_reconcile(eset, d, io_event, matched) ==
    IF io_event # matched
    THEN epoll_ctl(fdkind, eset, IF desc_events[d] # {} THEN "MOD" ELSE "DEL", d,
                   epoll_flags_from_events(desc_events[d]))
    ELSE eset

\* (mutation: every waiter is taken to match, with its own mask)
matching_events_waiting(waiting_events, io_event) == waiting_events

\* (mutation: a waiter is resumed with everything that fired)
matching_events_fired(waiting_events, io_event) ==
    IF waiting_events \cap io_event # {} THEN io_event ELSE {}

\* Does the waiter's mask match the fired events?  (matching_events)
matching_events(waiting_events, io_event) == waiting_events \cap io_event

\* One iteration of the while loop of the dispatch routine (both backends):
\* a matching waiter's fiber is resumed, another waiter is stepped over; at
\* the list head the walk ends.
Walk ==
    /\ current = Loop /\ sel_pc = "walk"
    /\ IF hnd.node = ListHead
       THEN /\ epoll_set' = IF backend = "epoll"
                             THEN EPoll_handle_reconcile(epoll_set, hnd.d, hnd.io_event,
                                                         hnd.matched)
                             ELSE epoll_set
            /\ obs' = IF backend = "epoll" /\ hnd.io_event # hnd.matched
                       THEN ObsCtl({"epoll_ctl"}, 0, epoll_flags_from_events(desc_events[hnd.d]))
                       ELSE ObsNone
            /\ sel_pc' = "dispatch"
            /\ hnd' = HndIdle
            /\ UNCHANGED <<current, pc, ret, list, arrivals, fdkind, sel>>
       ELSE LET waiting == hnd.node
                matching == matching_events(wevents[waiting], hnd.io_event)
            IN  IF matching # {}
                THEN /\ Transfer(Loop, waiting, WithEvents(matching),
                                  [list EXCEPT ![hnd.d] =
                                      IO_Event_List_append(@, waiting, Saved)])
                     /\ hnd' = [hnd EXCEPT !.matched = @ \cup matching,
                                           !.resumed = @ \cup {waiting}]
                     /\ sel_pc' = "resumed"
                     /\ obs' = ObsTransfer(waiting, WithEvents(matching))
                     /\ UNCHANGED sel
                ELSE /\ hnd' = [hnd EXCEPT !.node = ListTail(list[hnd.d], waiting)]
                     /\ obs' = ObsNone
                     /\ UNCHANGED <<current, pc, ret, list, arrivals, fdkind, epoll_set, sel_pc, sel>>
    /\ UNCHANGED <<backend, fdflags, io, wevents, wfd, desc_events, desc_ready, kfilters, intr, blocked,
                   queue, nwaits, nselects>>

\* Back in the dispatch routine after the resumed fiber transferred to the
\* loop: node = saved.tail; IO_Event_List_pop(&saved).
AfterResume ==
    /\ current = Loop /\ sel_pc = "resumed"
    /\ hnd' = [hnd EXCEPT !.node = ListTail(list[hnd.d], Saved)]
    /\ list' = IO_Event_List_pop(list, Saved)
    /\ UNCHANGED arrivals
    /\ sel_pc' = "walk"
    /\ obs' = ObsNone
    /\ UNCHANGED <<backend, fdflags, io, current, pc, wevents, wfd, ret, desc_events, desc_ready,
                   fdkind, epoll_set, kfilters, intr, blocked, queue, sel, nwaits, nselects>>

\* ----------------------------------------------------------- wakeup
\* Another thread can run when this thread is in user code or has released
\* the lock for the blocking wait.
OtherThreadRuns == sel_pc \in {"idle", "blocking", "woken"} \/ current # Loop

\* IO_Event_Interrupt_signal (epoll) / the two kevent calls (kqueue)
IO_Event_Interrupt_signal(ir) == [ir EXCEPT !.pending = TRUE]

\* (mutation: the interrupt is signalled whether or not select is blocked)
EPoll_wakeup_always(flag, ir) ==
    [result |-> IF flag # 0 THEN "true" ELSE "false",
     intr |-> IO_Event_Interrupt_signal(ir), calls |-> {"write"}]

EPoll_wakeup(flag, ir) ==
    IF flag # 0 THEN [result |-> "true", intr |-> IO_Event_Interrupt_signal(ir),
                      calls |-> {"write"}]
    ELSE [result |-> "false", intr |-> ir, calls |-> {}]

KQueue_wakeup(flag, ir) ==
    IF flag # 0 THEN [result |-> "true", intr |-> [ir EXCEPT !.pending = TRUE],
                      calls |-> {"kevent"}]
    ELSE [result |-> "false", intr |-> ir, calls |-> {}]

Wakeup ==
    /\ OtherThreadRuns
    /\ LET w == IF backend = "epoll" THEN EPoll_wakeup(blocked, intr)
                 ELSE KQueue_wakeup(blocked, intr)
       IN  /\ intr' = w.intr
           /\ obs' = [ObsNone EXCEPT !.wakeup = w.result, !.calls = w.calls]
    /\ UNCHANGED <<backend, fdflags, io, current, pc, wevents, wfd, ret, list, arrivals, desc_events, desc_ready,
                   fdkind, epoll_set, kfilters, blocked, queue, sel_pc, sel, hnd, nwaits, nselects>>

\* ------------------------------------------------------------- Next
Next ==
    \/ \E t \in Tasks : Start(t)
    \/ \E t \in Tasks : TaskReturn(t)
    \/ \E from \in Tasks \cup {Loop}, u \in Tasks, value \in {WithNil, WithRaise} :
          Cancel(from, u, value)
    \/ \E t \in Tasks, d \in Descriptors, events \in EventChoices : EPoll_io_wait(t, d, events)
    \/ \E t \in Tasks, found \in BOOLEAN, failure \in {0, ENOMEM} :
          EPoll_process_wait(t, found, failure)
    \/ \E t \in Tasks, d \in Descriptors, events \in EventChoices : KQueue_io_wait(t, d, events)
    \/ \E t \in Tasks, pid \in Descriptors, alive \in BOOLEAN : KQueue_process_wait(t, pid, alive)
    \/ \E d \in Descriptors, kind \in {"socket", "file"} : Open(d, kind)
    \/ \E duration \in Durations : Select(duration)
    \/ Flush
    \/ SelectPoll
    \/ KernelReturn
    \/ SelectWake
    \/ Dispatch
    \/ Walk
    \/ AfterResume
    \/ Wakeup

Spec == Init /\ [][Next]_vars

\* The behaviours in which one task makes a buffered call (io_read or
\* io_write) and the host loop runs select or cancels the task's wait.
IoTasks == {"A"}

\* The host loop calls select when no task is runnable: here, while the task
\* is suspended in the io_wait of its buffered call.
SelectIO(duration) == io.pc = "waiting" /\ Select(duration)

NextIO ==
    \/ \E t \in IoTasks : Start(t)
    \/ \E d \in Descriptors, flags \in {{}, {"O_NONBLOCK"}} : Fcntl(d, flags)
    \/ \E t \in IoTasks, op \in {"read", "write"}, d \in Descriptors,
          size \in IoSizes, offset \in IoOffsets, length \in IoLengths :
          IoCall(t, op, d, size, offset, length)
    \/ \E t \in IoTasks : IoLoop(t)
    \/ \E t \in IoTasks, d \in Descriptors, events \in EventChoices : EPoll_io_wait(t, d, events)
    \/ \E t \in IoTasks, d \in Descriptors, events \in EventChoices : KQueue_io_wait(t, d, events)
    \/ \E u \in IoTasks, value \in {WithNil, WithRaise} : Cancel(Loop, u, value)
    \/ \E duration \in Durations : SelectIO(duration)
    \/ SelectPoll
    \/ KernelReturn
    \/ SelectWake
    \/ Dispatch
    \/ Walk
    \/ AfterResume

SpecIO == Init /\ [][NextIO]_vars

\* The behaviours in which the host loop calls select with nil and with
\* integer durations, the largest ones around INT_MAX milliseconds, and
\* another thread calls wakeup; no task waits.
TimeoutDurations ==
    Durations \cup {[nil |-> FALSE, n |-> INT_MAX \div 1000 + k] : k \in 0..1}

NextTimeout ==
    \/ \E duration \in TimeoutDurations : Select(duration)
    \/ SelectPoll
    \/ KernelReturn
    \/ SelectWake
    \/ Dispatch
    \/ Wakeup

SpecTimeout == Init /\ [][NextTimeout]_vars

\* =========================================================== properties
Suspended(t) == pc[t] \in {"io_wait", "process_wait"}

\* The step resumed task t, suspended in wait, with a value of the given kind.
Resumed(t, wait, kind) == obs.fiber = t /\ obs.wait = wait /\ obs.value.kind = kind

\* C1: on both backends a waiter that io_wait or process_wait linked is
\* unlinked before the call returns, on every exit path (resumed with an
\* events bitmap, with the cancellation sentinel, or by an exception): a
\* waiter is in a list only while its task is suspended in the wait, and the
\* task a step resumed is in no list.
C1_UnlinkedOnReturn ==
    /\ \A t \in Tasks : Linked(list, t) => Suspended(t)
    /\ \A t \in Tasks : obs.fiber = t => ~Linked(list, t)

\* A task left io_wait by an exception raised into it.
C1_Witness ==
    \E t \in Tasks : Resumed(t, "io_wait", "raise") /\ ret[t] = RetRaised /\ ~Linked(list, t)

\* C2: epoll backend: for every descriptor with a linked waiter, the event
\* set registered with the kernel for the descriptor contains the requested
\* events of every linked waiter.  Stated for the open descriptors, in the
\* states in which no reported event awaits its dispatch (a one-shot
\* registration whose event was reported is disarmed until its waiter is
\* resumed).
C2_Quiescent == sel_pc \in {"idle", "flush", "blocking"}

C2_RegistrationCoversWaiters ==
    (backend = "epoll" /\ C2_Quiescent) =>
        \A d \in {x \in Descriptors : fdkind[x] # "closed"} :
          \A t \in Members(list[d]) \cap Tasks :
            /\ epoll_set[d].registered
            /\ (epoll_flags_from_events(wevents[t]) \ {EPOLLHUP, EPOLLERR})
                   \subseteq epoll_set[d].events

\* C3: in one dispatch walk every matching waiter is resumed at most once,
\* and a task that links a new waiter on the same descriptor while it is
\* being resumed is not resumed again in the same walk: the walk never
\* comes to a matching waiter of a task it has resumed already.
C3_ResumedOncePerWalk ==
    (sel_pc = "walk" /\ hnd.node # ListHead
        /\ matching_events(wevents[hnd.node], hnd.io_event) # {})
    => hnd.node \notin hnd.resumed

\* C4: during the dispatch of fired events E on a descriptor, a waiter whose
\* mask does not intersect E is not resumed and stays linked: no step of
\* the walk changes its position, its list membership or its wait.
C4_NonMatching(t) ==
    /\ LinkedIn(list, hnd.d, t)
    /\ wevents[t] \cap hnd.io_event = {}

C4_NonMatchingStays ==
    [][sel_pc = "walk" =>
         \A t \in Tasks : C4_NonMatching(t) =>
             /\ LinkedIn(list', hnd.d, t)
             /\ pc'[t] = pc[t] /\ ret'[t] = ret[t]
             /\ obs'.fiber # t]_vars

\* A waits READABLE and B WRITABLE on one descriptor, only WRITABLE fired: B
\* is resumed with WRITABLE, A is still linked, the event count is 1.
C4_Witness ==
    /\ sel_pc = "resumed" /\ hnd.io_event = {IO_EVENT_WRITABLE}
    /\ Resumed("B", "io_wait", "events") /\ ret["B"] = RetEvents({IO_EVENT_WRITABLE})
    /\ wevents["B"] = {IO_EVENT_WRITABLE}
    /\ LinkedIn(list, hnd.d, "A") /\ pc["A"] = "io_wait"
    /\ wevents["A"] = {IO_EVENT_READABLE}
    /\ sel.count = 1 /\ sel.events = <<>>

\* C5: the events bitmap M a dispatch resumes a task with, and the value M
\* io_wait returns when it is not false (after the translation of the resume
\* value on epoll, and on the EPERM path), is nonempty and a subset of the
\* events the task requested.
C5_ResumeValueWithinRequest ==
    /\ \A t \in Tasks : Resumed(t, obs.wait, "events") =>
           /\ obs.value.events # {}
           /\ obs.value.events \subseteq wevents[t]
    /\ \A t \in Tasks : ret[t].kind = "events" =>
           /\ ret[t].events # {}
           /\ ret[t].events \subseteq wevents[t]

\* On epoll a task that asked for READABLE|WRITABLE got WRITABLE alone back.
C5_Witness ==
    /\ backend = "epoll"
    /\ \E t \in Tasks :
           /\ Resumed(t, "io_wait", "events")
           /\ wevents[t] = {IO_EVENT_READABLE, IO_EVENT_WRITABLE}
           /\ ret[t] = RetEvents({IO_EVENT_WRITABLE})

\* C6: a task suspended in io_wait that is resumed with the cancellation
\* sentinel gets false from io_wait, no kernel call is made on the way out,
\* its waiter is unlinked, and no later dispatch resumes it: the dispatch
\* walk only ever stands on a linked waiter of a suspended task.
C6_CancelledWait ==
    /\ \A t \in Tasks : Resumed(t, "io_wait", "nil") =>
           /\ ret[t] = RetFalse
           /\ obs.calls = {}
           /\ ~Linked(list, t)
    /\ \A t \in Tasks : ret[t] = RetFalse => ~Linked(list, t) /\ hnd.node # t
    /\ (sel_pc = "walk" /\ hnd.node # ListHead) =>
           LinkedIn(list, hnd.d, hnd.node) /\ Suspended(hnd.node)

\* A task was cancelled out of io_wait by a task that a dispatch resumed.
C6_Witness ==
    /\ sel_pc = "resumed"
    /\ \E t \in Tasks : Resumed(t, "io_wait", "nil") /\ ret[t] = RetFalse /\ wfd[t] = hnd.d

\* C7: epoll io_wait whose EPOLL_CTL fails with EPERM does not fail: the
\* task is pushed on the ready queue and yields, io_wait returns exactly the
\* requested events, and the armed mask, the waiter list and the kernel
\* registration are unchanged; any other EPOLL_CTL error raises and leaves
\* mask and list unchanged.
C7_Failed ==
    /\ backend = "epoll" /\ obs'.calls = {"epoll_ctl"} /\ obs'.errno # 0
    /\ \E t \in Tasks : Running(t)

C7_EPERMYields ==
    /\ [][C7_Failed =>
            /\ desc_events' = desc_events /\ list' = list /\ epoll_set' = epoll_set
            /\ IF obs'.errno = EPERM
               THEN /\ pc'[current] = "yield" /\ queue' = Append(queue, current)
                    /\ ret'[current] # RetFailed
               ELSE /\ ret'[current] = RetFailed /\ pc'[current] = "running"]_vars
    /\ [](\A t \in Tasks : Resumed(t, "yield", obs.value.kind) =>
              ret[t] = RetEvents(wevents[t]) /\ ~Linked(list, t))

\* A task that asked for READABLE|WRITABLE on a regular file was resumed
\* from the ready queue and got READABLE|WRITABLE.
C7_Witness ==
    /\ backend = "epoll"
    /\ \E t \in Tasks :
           /\ Resumed(t, "yield", "nil")
           /\ fdkind[wfd[t]] = "file"
           /\ ret[t] = RetEvents({IO_EVENT_READABLE, IO_EVENT_WRITABLE})

\* C8: select performs the blocking kernel wait only if the ready-queue
\* flush found nothing, the nonblocking poll returned zero events, the ready
\* queue is still empty and the duration is not zero.
C8_BlocksOnlyWhenIdle ==
    sel_pc = "blocking" =>
        /\ sel.ready = 0
        /\ sel.count = 0 /\ sel.events = <<>>
        /\ queue = <<>>
        /\ ~(~sel.duration.nil /\ sel.duration.n = 0)

\* select(nil) sits in the blocking wait while a task waits for a descriptor.
C8_Witness ==
    /\ sel_pc = "blocking" /\ blocked = 1 /\ sel.duration.nil
    /\ \E t \in Tasks : pc[t] = "io_wait"

\* C9: wakeup returns true if and only if the blocked flag is set when it is
\* called, and signals the interrupt channel exactly then; called while not
\* blocked it returns false and changes no selector or kernel state.
C9_Wakeup == obs'.wakeup # "none"

C10_WakeupEndsWait ==
    (sel_pc = "blocking" /\ obs.wakeup = "true") => InterruptReady

\* C11: a select(nil) that performed the blocking wait while no task had
\* waited on anything (so only a wakeup or a signal can end the wait)
\* returns the count 0.
C11_WakeupReturnsZero ==
    (obs.select >= 0 /\ obs.forever /\ nwaits = 0) => obs.select = 0

\* C12: the value select returns is the number of events in the array the
\* kernel filled in the poll select used (the blocking wait when it was
\* performed, the nonblocking poll otherwise), whatever the dispatch did with
\* the events.
C12_ReturnsKernelCount == obs.select >= 0 => obs.select = obs.total

\* select returned 1 for an event that resumed nobody: the only task that
\* waited is still suspended.
C12_Witness ==
    /\ obs.select = 1
    /\ nwaits = 1
    /\ \E t \in Tasks : Suspended(t)

\* The waiters linked in descriptor d's list (the dispatch routine's saved
\* node is not a waiter).
Waiters(d) == Remove(list[d], Saved)

\* The wait calls on descriptor d that were entered and have not returned:
\* suspended with a linked waiter, or (EPERM fallback) queued and yielded.
\* A process wait on d is counted as a wait on d.
Outstanding(d) ==
    {t \in Tasks : pc[t] \in {"io_wait", "process_wait", "yield"} /\ wfd[t] = d}

\* C13: whenever the loop fiber has control, every descriptor has as many
\* linked waiters as wait calls that were entered and have not returned,
\* whichever path the call took.
C13_WaitersAreOutstandingCalls ==
    current = Loop =>
        \A d \in Descriptors : Len(Waiters(d)) = Cardinality(Outstanding(d))

\* C13 (amended): whenever the loop fiber has control, every descriptor has
\* as many linked waiters as calls suspended in io_wait or process_wait on
\* it; a call on the EPERM path is outstanding in the ready queue and has no
\* waiter.
C13_WaitersAreSuspendedCalls ==
    current = Loop =>
        \A d \in Descriptors :
            Len(Waiters(d)) = Cardinality({t \in Outstanding(d) : Suspended(t)})

\* Inside a dispatch that has resumed one of two waiters of a descriptor
\* and got control back: the other is still linked.
C13_Witness ==
    /\ current = Loop /\ sel_pc = "walk"
    /\ hnd.resumed # {}
    /\ Len(Waiters(hnd.d)) = 1

\* C14: the blocked flag is 1 exactly from the start to the end of the
\* blocking kernel wait of select (the thread is in the wait, or the kernel
\* has ended it and the thread has not yet resumed), and 0 in every other
\* state: flush and nonblocking poll, dispatch, after select returned or raised.
C14_BlockedOnlyInKernelWait ==
    blocked = IF sel_pc \in {"blocking", "woken"} THEN 1 ELSE 0

\* select has just raised because its blocking wait failed, and the flag is 0.
C14_Witness == obs.raised /\ obs.forever /\ blocked = 0 /\ sel_pc = "idle"

\* The walk is at a waiter that matches the fired events: its fiber is the
\* next one the dispatch resumes.
NextResumed(t) ==
    /\ current = Loop /\ sel_pc = "walk"
    /\ hnd.node = t
    /\ matching_events(wevents[t], hnd.io_event) # {}

\* x called its wait on descriptor d before y did, and both are linked.
WaitedBefore(d, x, y) ==
    /\ x \in Members(arrivals[d]) /\ y \in Members(arrivals[d])
    /\ Index(arrivals[d], x) < Index(arrivals[d], y)

\* C15: when the dispatch resumes a waiter of a descriptor, no waiter that
\* called its wait on that descriptor earlier and matches the fired events
\* is still waiting: matching waiters are resumed oldest first.
C15_OldestFirst ==
    \A y \in Tasks : NextResumed(y) =>
        \A x \in Tasks : WaitedBefore(hnd.d, x, y) =>
            matching_events(wevents[x], hnd.io_event) = {}

\* The dispatch has resumed one matching waiter and is about to resume
\* another one of the same descriptor.
C15_Witness ==
    \E y \in Tasks : NextResumed(y) /\ hnd.resumed # {} /\ y \notin hnd.resumed

\* The requested I/O bits of an epoll registration (EPOLLHUP and EPOLLERR
\* are the baseline every registration carries).
EPollRequestedBits == {EPOLLIN, EPOLLPRI, EPOLLOUT}

\* C16 (epoll): when the dispatch routine returns from a descriptor whose
\* waiters it has resumed and whose waiter list is now empty (every io_wait
\* round on it was completed by a resumption), the descriptor is not
\* registered with the kernel or is registered for no requested I/O event.
C16_IdleDescriptorDisarmed ==
    [][(/\ backend = "epoll" /\ sel_pc = "walk" /\ hnd.node = ListHead
        /\ hnd.resumed # {} /\ Waiters(hnd.d) = <<>>
        /\ fdkind[hnd.d] = "socket"
        /\ sel_pc' = "dispatch")
       => \/ ~epoll_set'[hnd.d].registered
          \/ epoll_set'[hnd.d].events \cap EPollRequestedBits = {}]_vars

\* The union of the events of the waiters still linked in descriptor d.
RemainingEvents(d) == UNION {wevents[t] : t \in Members(Waiters(d))}

\* C17 (epoll): when the dispatch routine returns from a descriptor for
\* which events fired that the waiters still linked do not all want, the
\* kernel registration is the mask of the union of the remaining waiters'
\* events (EPOLL_CTL_MOD), or is gone when no waiter remains (EPOLL_CTL_DEL).
C17_NarrowedAfterDispatch ==
    [][(/\ backend = "epoll" /\ sel_pc = "walk" /\ hnd.node = ListHead
        /\ fdkind[hnd.d] = "socket"
        /\ ~(hnd.io_event \subseteq RemainingEvents(hnd.d))
        /\ sel_pc' = "dispatch")
       => IF Waiters(hnd.d) = <<>>
          THEN ~epoll_set'[hnd.d].registered
          ELSE /\ epoll_set'[hnd.d].registered
               /\ epoll_set'[hnd.d].events =
                      epoll_flags_from_events(RemainingEvents(hnd.d))]_vars

\* io_read / io_write returned (count, 0).
IoSucceeded == io.pc = "done" /\ io.result.kind = "result" /\ io.result.errno = 0

\* C18: when io_read or io_write succeeds, the count it returns is the
\* number of bytes its syscalls transferred, whatever the starting offset
\* within the buffer (0 for a read that meets the end of the file first).
C18_ReturnsBytesTransferred ==
    (IoSucceeded /\ io.start <= io.size) => io.result.count = io.moved

\* The bytes of the buffer at and after offset o (none when o is past the end).
Capacity(o) == IF o <= io.size THEN io.size - o ELSE 0

\* C19: the byte count of every read / write syscall of the loops exceeds
\* neither the length that remains to be transferred nor the buffer's
\* capacity after the offset, and the call never transfers more than the
\* requested length in total.
C19_SyscallWithinRequest ==
    /\ io.syscall.name # "none" =>
           /\ io.syscall.count <= io.syscall.length
           /\ io.syscall.count <= Capacity(io.syscall.offset)
    /\ io.moved <= io.requested

\* The last step issued a read / write syscall that failed.
SyscallFailed == obs.calls \cap {"read", "write"} # {} /\ obs.errno # 0

\* C20: after a failed syscall the loop calls io_wait exactly when the errno
\* is retry-class and length remains, for READABLE in the read loop and for
\* WRITABLE in the write loop; otherwise the call returns (-1, errno).
C20_WaitsForItsEvent ==
    SyscallFailed =>
        IF io.length > 0 /\ IO_Event_try_again(obs.errno)
        THEN /\ io.pc = "wait"
             /\ io.events = IF io.op = "read" THEN {IO_EVENT_READABLE}
                            ELSE {IO_EVENT_WRITABLE}
        ELSE /\ io.pc = "done"
             /\ io.result = rb_fiber_scheduler_io_result(-1, obs.errno)

\* C21: io_read and io_write put the descriptor into nonblocking mode for
\* the time of the call, and when the call has exited (with a count, with
\* (-1, errno), by the error raised for length > size, or by an exception
\* out of the nested io_wait) the descriptor's status flags are the ones it
\* had when the call was made.
C21_FlagsRestored ==
    /\ \A t \in Tasks : InIo(t) => "O_NONBLOCK" \in fdflags[io.descriptor]
    /\ io.pc = "done" => fdflags[io.descriptor] = io.prior

\* A read on a blocking descriptor was ended by an exception raised into
\* the task while it was suspended in the nested io_wait.
C21_Witness ==
    /\ io.pc = "done" /\ io.op = "read" /\ io.result = IoRaised
    /\ io.prior = {} /\ fdflags[io.descriptor] = {}
    /\ ret[io.task] = RetRaised

\* C22 (epoll): on every path of process_wait after pidfd_open succeeded
\* (resumption, cancellation, exception, failed descriptor-record lookup,
\* failed EPOLL_CTL_ADD) the process handle is closed and the waiter is
\* unlinked: a process handle is open only while the task that opened it is
\* suspended in process_wait on it, and a task that is not suspended has no
\* linked waiter.
C22_HandleClosedOnEveryPath ==
    backend = "epoll" =>
        /\ \A d \in Descriptors : fdkind[d] = "pidfd" =>
               \E t \in Tasks : pc[t] = "process_wait" /\ wfd[t] = d
        /\ \A t \in Tasks : Linked(list, t) => Suspended(t)

\* C23: a task suspended in process_wait that is resumed with the
\* cancellation sentinel gets the falsy "no events" result from process_wait,
\* not the result of a process-status query, on both backends.
C23_CancelledProcessWait ==
    \A t \in Tasks : Resumed(t, "process_wait", "nil") => ret[t] = RetFalse

\* The last step was a kernel wait of select (in the given function) that
\* failed with EINTR.
Interrupted(function) == function \in obs.calls /\ obs.errno = EINTR

\* The last step was a kernel wait of select that failed with another errno.
WaitFailedHard ==
    /\ obs.calls \cap {"select_internal_with_gvl", "select_internal_without_gvl"} # {}
    /\ obs.errno \notin {0, EINTR}

\* select is about to return 0 without having anything to dispatch.
ReturnsZero == sel_pc = "dispatch" /\ sel.count = 0 /\ sel.events = <<>>

\* C24: when a kernel wait of select fails with EINTR, in the nonblocking or
\* in the blocking phase, select raises nothing, dispatches nothing and
\* returns 0; when it fails with another errno, select raises.
C24_EINTRReturnsZero ==
    /\ (Interrupted("select_internal_with_gvl")
            \/ Interrupted("select_internal_without_gvl"))
        => ~obs.raised /\ ReturnsZero
    /\ WaitFailedHard => obs.raised /\ sel_pc = "idle"

\* C24 (amended): EINTR counts as a kernel wait that returned zero events.
\* In the blocking phase select then raises nothing, dispatches nothing and
\* returns 0; in the nonblocking phase it goes on as after an empty poll:
\* to the blocking wait when the conditions for it hold, and to return 0
\* otherwise.  A failure with another errno raises.
C24_EINTRIsZeroEvents ==
    /\ Interrupted("select_internal_without_gvl") => ~obs.raised /\ ReturnsZero
    /\ Interrupted("select_internal_with_gvl") =>
           /\ ~obs.raised /\ sel.count = 0 /\ sel.events = <<>>
           /\ IF sel_pc = "blocking"
              THEN blocked = 1 /\ select_blocks(sel.ready, 0, queue, sel.duration)
              ELSE ReturnsZero
    /\ WaitFailedHard => obs.raised /\ sel_pc = "idle"

\* The blocking wait of a select failed with EINTR while a task waits: the
\* select is about to return 0 and the task stays suspended.
C24_Witness ==
    /\ Interrupted("select_internal_without_gvl") /\ ReturnsZero
    /\ \E t \in Tasks : Suspended(t)

\* The kernel ended the blocking wait of a select(nil) that was entered
\* with no waiter linked, an empty ready queue and nothing registered.
ForeverEnded == sel_pc = "woken" /\ sel.forever

\* The interrupt channel's event is among the events the wait returned.
InterruptReported ==
    (IF backend = "epoll" THEN InterruptEvent ELSE UserEvent) \in Reported(sel.events)

C26_OversizedWriteRejected ==
    (io.op = "write" /\ io.requested > io.size) =>
        /\ io.pc = "done" /\ io.result = IoRaised
        /\ io.syscall = IoNoSyscall /\ io.moved = 0 /\ io.events = {}
        /\ pc[io.task] = "running" /\ ~Linked(list, io.task)

\* A write of 2 bytes from an empty buffer was rejected.
C26_Witness ==
    /\ io.op = "write" /\ io.size = 0 /\ io.requested = 2
    /\ io.result = IoRaised /\ io.syscall = IoNoSyscall

\* C27 (epoll): when select has dispatched the interrupt channel's event the
\* channel is cleared, and an interrupt event is in the array of a select
\* only while the channel is signalled: after the clear the event is not
\* reported again unless a wakeup signals the channel again.
C27_InterruptDrained ==
    backend = "epoll" =>
        /\ "IO_Event_Interrupt_clear" \in obs.calls => ~intr.pending /\ ~InterruptReady
        /\ InterruptEvent \in Reported(sel.events) => intr.pending

\* The select that a wakeup ended has dispatched the interrupt's event, its
\* only event, and is about to return.
C27_Witness ==
    /\ backend = "epoll" /\ "IO_Event_Interrupt_clear" \in obs.calls
    /\ sel_pc = "dispatch" /\ sel.events = <<>> /\ sel.count = 1
    /\ ~intr.pending

\* The places (descriptor, position) at which a waiter of task t is linked.
LinksOf(t) ==
    {p \in Descriptors \X (1..(MaxWaits + 1)) :
        p[2] <= Len(list[p[1]]) /\ list[p[1]][p[2]] = t}

\* C28: in every reachable state, for every task, at most one waiter of
\* that task is linked across all descriptor waiter lists.
C28_OneWaiterPerTask == \A t \in Tasks : Cardinality(LinksOf(t)) <= 1

\* A task that the dispatch walk resumed has called a wait again during
\* its resumption and is linked once more, while the walk is still going on.
C28_Witness ==
    /\ sel_pc = "resumed"
    /\ \E t \in hnd.resumed : Cardinality(LinksOf(t)) = 1

\* C29 (epoll): whenever control is in the host loop, outside select, the
\* armed mask of the record of every open descriptor is the union of the
\* requested events of the waiters linked in its list (empty when the list
\* is empty).
C29_MaskIsUnionOfWaiters ==
    (backend = "epoll" /\ current = Loop /\ sel_pc = "idle") =>
        \A d \in {x \in Descriptors : fdkind[x] # "closed"} :
            desc_events[d] = RemainingEvents(d)

\* C30 (epoll): the armed mask of a descriptor record is nonempty exactly
\* when the descriptor is registered in the kernel's epoll set, after any
\* sequence of io_wait, process_wait, dispatch and failed EPOLL_CTL calls.
C30_MaskInSyncWithKernel ==
    backend = "epoll" =>
        \A d \in Descriptors : (desc_events[d] # {}) <=> epoll_set[d].registered

\* The waiters the walk has still to visit: the cursor and the nodes between
\* it and the list head.
Ahead ==
    IF hnd.node = ListHead THEN {}
    ELSE {list[hnd.d][i] : i \in 1..Index(list[hnd.d], hnd.node)}

\* After each resumption the cursor is the list head or a waiter linked in
\* the list of the descriptor under dispatch.
C31_CursorLinked ==
    sel_pc = "walk" =>
        \/ hnd.node = ListHead
        \/ hnd.node \in Tasks /\ LinkedIn(list, hnd.d, hnd.node)

\* The saved node is linked exactly while a task is being resumed, in the
\* list under dispatch and nowhere else.
C31_SavedTransient ==
    \A d \in Descriptors :
        LinkedIn(list, d, Saved) <=> (sel_pc = "resumed" /\ d = hnd.d)

\* The walk ends: a waiter it has resumed is behind the cursor for good, so
\* the waiters ahead shrink by one with every iteration.
C31_WalkProgresses == sel_pc = "walk" => Ahead \cap hnd.resumed = {}

\* C31: the dispatch walk stays valid under list mutation by resumed tasks:
\* after each resumption the cursor is a node still linked in the list or
\* the list head, the saved node is linked only while a task is being
\* resumed, and the walk terminates whatever the resumed task unlinked or
\* newly linked: what it has resumed never lies ahead of it again.
C31_WalkStaysValid ==
    /\ C31_CursorLinked
    /\ C31_SavedTransient
    /\ C31_WalkProgresses

\* The positions of the events of descriptor d in an array of kevents.
EventsOn(evs, d) == {i \in 1..Len(evs) : evs[i].udata /\ evs[i].ident = d}

\* The logical events of all filters of descriptor d the last poll returned.
FiredOn(d) ==
    UNION {events_from_kevent_filter(sel.polled[i].filter) : i \in EventsOn(sel.polled, d)}

\* C32 (kqueue): the logical events of all filters of a descriptor that one
\* poll returned are accumulated before any of them is dispatched: the walk
\* on a descriptor carries all of them and starts with the first event of
\* the descriptor, a waiter is resumed with all of them that it requested
\* (a READABLE|WRITABLE waiter with READABLE|WRITABLE when both filters
\* fired), and once an event of the descriptor is dispatched the record's
\* accumulator is empty, so that a later event of it resumes nobody.
C32_AllFiltersInOneDispatch ==
    (backend = "kqueue" /\ sel_pc \in {"dispatch", "walk", "resumed"}) =>
        /\ \A d \in Descriptors :
              \/ desc_ready[d] = {}
              \/ /\ desc_ready[d] = FiredOn(d)
                 /\ EventsOn(sel.events, d) # {}
                 /\ Cardinality(EventsOn(sel.events, d))
                        = Cardinality(EventsOn(sel.polled, d))
        /\ sel_pc \in {"walk", "resumed"} =>
              /\ hnd.io_event = FiredOn(hnd.d)
              /\ desc_ready[hnd.d] = {}
        /\ \A t \in Tasks :
              (sel_pc = "resumed" /\ Resumed(t, obs.wait, "events")) =>
                  /\ obs.value.events = wevents[t] \cap FiredOn(hnd.d)
                  /\ obs.wait = "io_wait" => ret[t] = RetEvents(obs.value.events)

\* The poll returned the read and the write filter of one descriptor: the
\* task that waited for READABLE|WRITABLE was resumed with both by the walk
\* the first event started, and the second event is still to be dispatched.
C32_Witness ==
    /\ backend = "kqueue" /\ sel_pc = "resumed"
    /\ Len(sel.polled) = 2 /\ EventsOn(sel.events, hnd.d) = {1}
    /\ desc_ready[hnd.d] = {}
    /\ \E t \in Tasks :
          /\ Resumed(t, "io_wait", "events")
          /\ wevents[t] = {IO_EVENT_READABLE, IO_EVENT_WRITABLE}
          /\ ret[t] = RetEvents({IO_EVENT_READABLE, IO_EVENT_WRITABLE})

\* The last step was a kqueue wait call that armed and linked task t's
\* waiter (the newest waiter is at the head of its list).
JustLinked(t) ==
    /\ backend = "kqueue" /\ obs.calls = {"kevent"} /\ obs.errno = 0
    /\ obs.wakeup = "none"
    /\ current = Loop /\ pc[t] = "io_wait"
    /\ list[wfd[t]] # <<>> /\ Head(list[wfd[t]]) = t

\* C33 (kqueue): io_wait arms one one-shot kevent for each requested bit of
\* the events mask before it links the waiter: when io_wait has linked a
\* waiter, the kernel holds, for every bit the waiter requested, a filter of
\* the descriptor that reports that bit, so that at least one armed filter
\* can resume the waiter.
C33_EveryBitArmed ==
    \A t \in Tasks : JustLinked(t) =>
        /\ wevents[t] # {}
        /\ \A bit \in wevents[t] :
              \E f \in kfilters :
                  f.ident = wfd[t] /\ events_from_kevent_filter(f.filter) = {bit}

\* The dispatch routine's fired events are the translation of the flags of
\* its kernel event: READABLE for EPOLLIN, EPOLLHUP or EPOLLERR, PRIORITY
\* for EPOLLPRI, WRITABLE for EPOLLOUT, and nothing else.
C34_Translated ==
    /\ hnd.io_event \subseteq {IO_EVENT_READABLE, IO_EVENT_PRIORITY, IO_EVENT_WRITABLE}
    /\ IO_EVENT_READABLE \in hnd.io_event
           <=> hnd.flags \cap {EPOLLIN, EPOLLHUP, EPOLLERR} # {}
    /\ IO_EVENT_PRIORITY \in hnd.io_event <=> EPOLLPRI \in hnd.flags
    /\ IO_EVENT_WRITABLE \in hnd.io_event <=> EPOLLOUT \in hnd.flags

\* The dispatch routine works on a kernel event that carries nothing but
\* EPOLLHUP and / or EPOLLERR.
C34_HangupOnly ==
    /\ backend = "epoll" /\ sel_pc \in {"walk", "resumed"}
    /\ hnd.flags # {} /\ hnd.flags \subseteq {EPOLLHUP, EPOLLERR}

\* A kernel event is dispatched with the translation of its flags; an event
\* of EPOLLHUP / EPOLLERR alone resumes the waiters that requested READABLE,
\* with READABLE, and at the end of its walk no waiter that requested
\* READABLE is left in the list.
C34_Dispatched ==
    /\ (backend = "epoll" /\ sel_pc \in {"walk", "resumed"}) => C34_Translated
    /\ C34_HangupOnly =>
          /\ hnd.io_event = {IO_EVENT_READABLE}
          /\ \A t \in Tasks :
                (sel_pc = "resumed" /\ Resumed(t, obs.wait, "events")) =>
                    /\ IO_EVENT_READABLE \in wevents[t]
                    /\ obs.value.events = {IO_EVENT_READABLE}
                    /\ obs.wait = "io_wait" => ret[t] = RetEvents({IO_EVENT_READABLE})
          /\ (sel_pc = "walk" /\ hnd.node = ListHead) =>
                \A t \in Members(Waiters(hnd.d)) : IO_EVENT_READABLE \notin wevents[t]

\* C34 (epoll): every kernel event set containing EPOLLIN, EPOLLHUP or
\* EPOLLERR is dispatched as READABLE, EPOLLPRI as PRIORITY and EPOLLOUT as
\* WRITABLE, and nothing else is produced; a kernel event carrying only
\* EPOLLHUP and / or EPOLLERR resumes the waiters that requested READABLE
\* with READABLE; and every event mask passed to epoll_ctl contains EPOLLHUP
\* and EPOLLERR.
C34_HangupIsReadable ==
    /\ C34_Dispatched
    /\ "epoll_ctl" \in obs.calls => {EPOLLHUP, EPOLLERR} \subseteq obs.flags

\* C34 (amended): as above, but for the masks passed to epoll_ctl for a
\* descriptor that tasks wait on (by io_wait, by process_wait and by the
\* dispatch routine); the registration of the interrupt channel is
\* EPOLLIN|EPOLLRDHUP|EPOLLONESHOT.
C34_HangupIsReadableOnWaitedDescriptors ==
    /\ C34_Dispatched
    /\ ("epoll_ctl" \in obs.calls /\ "IO_Event_Interrupt_add" \notin obs.calls)
           => {EPOLLHUP, EPOLLERR} \subseteq obs.flags
    /\ "IO_Event_Interrupt_add" \in obs.calls
           => obs.flags = {EPOLLIN, EPOLLRDHUP, EPOLLONESHOT}

\* An event of EPOLLHUP alone has resumed a task that waited in io_wait for
\* READABLE|WRITABLE: it got READABLE.
C34_Witness ==
    /\ backend = "epoll" /\ sel_pc = "resumed" /\ hnd.flags = {EPOLLHUP}
    /\ \E t \in Tasks :
          /\ Resumed(t, "io_wait", "events")
          /\ wevents[t] = {IO_EVENT_READABLE, IO_EVENT_WRITABLE}
          /\ ret[t] = RetEvents({IO_EVENT_READABLE})

\* The kernel has ended a blocking wait of select: the last step passed
\* it obs.timeout, made from sel.duration.
BlockingWaitMade == sel_pc = "woken" /\ obs.timeout.kind # "none"

\* C35: timeout conversion for integer durations: the blocking kernel wait
\* has no time limit exactly when the duration is nil; for an integer n the
\* kernel gets n whole seconds and 0 nanoseconds, or in the epoll_wait
\* fallback n * 1000 milliseconds; a duration of zero yields no blocking
\* wait; and the millisecond timeout is -1 only for nil.
C35_TimeoutConversion ==
    BlockingWaitMade =>
        /\ kernel_wait_unbounded(obs.timeout) <=> sel.duration.nil
        /\ ~sel.duration.nil =>
              /\ sel.duration.n # 0
              /\ obs.timeout.kind = "timespec" =>
                    obs.timeout.tv_sec = sel.duration.n /\ obs.timeout.tv_nsec = 0
              /\ obs.timeout.kind = "milliseconds" =>
                    /\ obs.timeout.ms \div 1000 = sel.duration.n
                    /\ obs.timeout.ms % 1000 = 0
        /\ obs.timeout.kind = "milliseconds" =>
              (obs.timeout.ms = -1 <=> sel.duration.nil)

\* The filters of ident N among the events the last kqueue poll returned.
FiltersOn(N) == {sel.polled[i].filter : i \in EventsOn(sel.polled, N)}

\* The kqueue filter that io_wait arms for one bit of the events mask.
FilterOfBit(bit) ==
    CASE bit = IO_EVENT_READABLE -> "EVFILT_READ"
      [] bit = IO_EVENT_WRITABLE -> "EVFILT_WRITE"
      [] OTHER -> "none"

\* C36 (kqueue): process N and descriptor N share one record and one waiter
\* list; even so the dispatch resumes a task in process_wait(N) only when
\* the poll returned the EVFILT_PROC event of N, and with EXIT, and it
\* resumes a task in io_wait(N) only with bits whose own filter the poll
\* returned for N, never with EXIT and never for the exit of process N.
C36_SharedRecordKeepsWaitsApart ==
    (backend = "kqueue" /\ sel_pc = "resumed") =>
        \A t \in Tasks :
            /\ Resumed(t, "process_wait", "events") =>
                  /\ wfd[t] = hnd.d
                  /\ obs.value.events = {IO_EVENT_EXIT}
                  /\ "EVFILT_PROC" \in FiltersOn(wfd[t])
            /\ Resumed(t, "io_wait", "events") =>
                  /\ wfd[t] = hnd.d
                  /\ IO_EVENT_EXIT \notin obs.value.events
                  /\ \A bit \in obs.value.events : FilterOfBit(bit) \in FiltersOn(wfd[t])

\* Process N has exited while one task waits for it and another task waits
\* for descriptor N: the first is resumed, the second stays linked in the
\* list they share.
C36_Witness ==
    /\ backend = "kqueue" /\ sel_pc = "resumed"
    /\ \E t \in Tasks, u \in Tasks :
          /\ Resumed(t, "process_wait", "events") /\ ret[t] = RetStatus
          /\ pc[u] = "io_wait" /\ wfd[u] = wfd[t] /\ LinkedIn(list, hnd.d, u)

\* C37: a task resumed with the cancellation sentinel while it is suspended
\* in the io_wait nested in io_read / io_write does not suspend in io_wait
\* again for the same call: the call returns.
C37_NoWaitAfterCancellation ==
    \A t \in Tasks : io.task = t /\ io.cancelled => ~(io.pc = "waiting" /\ pc[t] = "io_wait")

====
